---- MODULE Spec2Model ----
(***************************************************************************)
(* Tracking and behaviour-scoring engine of poc-camera                     *)
(* (package shoplifting, ShopliftingDetector).                             *)
(*                                                                         *)
(* One DetectShoplifting cycle is the forced sequence                      *)
(*   DetectShoplifting -> updateTracking (one loop iteration per person    *)
(*   detection) -> analyzeBehaviors -> cleanupOldTracking                  *)
(* and the clock only advances between cycles: every time.Now() reading of *)
(* one cycle is the same instant at the resolution of the model.           *)
(*                                                                         *)
(* Time is counted in ticks, TicksPerSecond ticks to the second.  Pixel    *)
(* coordinates are integers as in image.Point; distances are compared by   *)
(* their squares, which is exact for math.Sqrt on integer arguments.       *)
(***************************************************************************)
EXTENDS Integers, Sequences, FiniteSets, TLC

VARIABLES
    trackedPeople,    \* sd.trackedPeople : map[int]*TrackedPerson
    nextPersonID,     \* sd.nextPersonID
    now,              \* the wall clock read by time.Now(), in ticks
    pc,               \* position inside DetectShoplifting
    detections,       \* the frame returned by objectDetector.Detect
    people,           \* person detections still to be visited by updateTracking
    valuableObjects,  \* filterValuableObjects(detections)
    behaviors,        \* the []SuspiciousBehavior built by analyzeBehaviors
    frames,           \* number of cycles started, counted up to MaxFrames (history)
    created,          \* ids in the order updateTracking allocated them (history)
    lastAssoc,        \* what the last updateTracking iteration did (history)
    staleAtStart,     \* ids whose age exceeded the timeout when the cycle began (history)
    prevLog,          \* <<id, Type>> -> time of the last log-eligible event of earlier cycles (history)
    scenarioC,        \* every frame so far held exactly one person, each near the previous one (history)
    prevCentroid,     \* centroid of the person of the previous frame (history)
    scene,            \* which frames the detector collaborator returns in this run
    prevEvent,        \* <<id, Type>> -> time and confidence of the last loitering or movement
                      \* event of earlier cycles (history)
    fed,              \* person detections handed to updateTracking so far (history)
    poseEnabled,      \* sd.poseEnabled (pose-estimation variant of the detector)
    frameCount,       \* sd.frameCount
    lastPoseFrame,    \* sd.lastPoseFrame
    lastPoses,        \* sd.lastPoses
    poses,            \* the poses slice handed to updateTracking in this cycle
    output,           \* the rows of the network output read by processDetections
    config,           \* sd.config of the pose-estimation variant
    heap,             \* address -> the map[int]*TrackedPerson allocated there
    detectors,        \* the ShopliftingDetector values a hosting program holds
    inputs            \* per detector, the frames and times of its cycles (history)

vars == <<trackedPeople, nextPersonID, now, pc, detections, people, valuableObjects,
          behaviors, frames, created, lastAssoc, staleAtStart, prevLog, scenarioC,
          prevCentroid, scene, fed, poseEnabled, frameCount, lastPoseFrame, lastPoses,
          poses, prevEvent, output, config, heap, detectors, inputs>>

poseVars == <<poseEnabled, frameCount, lastPoseFrame, lastPoses, poses>>

(***************************************************************************)
(* Bounds of the model                                                     *)
(***************************************************************************)
TicksPerSecond == 2
MaxTime == 13
MaxFrames == 3
MaxPersonID == 3
MaxFed == 32
MaxPoseFrames == 41

(***************************************************************************)
(* Configuration (config.DefaultConfig) and constants of the engine        *)
(***************************************************************************)
ProximityThreshold == 80
LoiteringTimeThreshold == 20
TrackerTimeout == 5
MaxTrackedPeople == 50
maxPositions == 30
MaxPoseHistory == 30
PoseInterval == 10
FramesPerSecond == 30
LogThrottleSeconds == 1
LoiteringNormalization == 30
PersonClassID == 0

\* config.GetValuableItems(): class identifier -> label (the keys the model uses)
valuableItems == (50 :> "telefone") @@ (51 :> "notebook")

Seconds(s) == s * TicksPerSecond

(***************************************************************************)
(* Geometry                                                                *)
(***************************************************************************)
Pt(x, y) == [X |-> x, Y |-> y]
Rect(x0, y0, x1, y1) == [MinX |-> x0, MinY |-> y0, MaxX |-> x1, MaxY |-> y1]
Dx(b) == b.MaxX - b.MinX
Dy(b) == b.MaxY - b.MinY

\* image.Pt(Box.Min.X+Box.Dx()/2, Box.Min.Y+Box.Dy()/2)
Centroid(b) == Pt(b.MinX + (Dx(b) \div 2), b.MinY + (Dy(b) \div 2))

\* the radicand of math.Sqrt(float64(dx*dx + dy*dy))
Dist2(p, q) == (p.X - q.X) * (p.X - q.X) + (p.Y - q.Y) * (p.Y - q.Y)

\* variant: the squared distance compared with the threshold itself
WithinProximity_NoRoot(p, q) == Dist2(p, q) < ProximityThreshold

\* distance < sd.config.ProximityThreshold
WithinProximity(p, q) == Dist2(p, q) < ProximityThreshold * ProximityThreshold

\* math.Sqrt on the radicand n, rounded down; exact on perfect squares, which
\* is every distance along the axis-parallel trajectories the model feeds
Sqrt(n) == CHOOSE r \in 0..n : r * r <= n /\ n < (r + 1) * (r + 1)

Last(s) == s[Len(s)]

Min(S) == CHOOSE x \in S : \A y \in S : x <= y

RECURSIVE SelectSeq2(_, _)
SelectSeq2(s, keep) ==
    IF s = <<>> THEN <<>>
    ELSE IF Head(s).ClassID \in keep THEN <<Head(s)>> \o SelectSeq2(Tail(s), keep)
    ELSE SelectSeq2(Tail(s), keep)

filterPeople(dets) == SelectSeq2(dets, {PersonClassID})
\* variant: every detection that is not a person counts as a valuable item
filterValuableObjects_NotPeople(dets) == SelectSeq2(dets, {7} \cup DOMAIN valuableItems)

filterValuableObjects(dets) == SelectSeq2(dets, DOMAIN valuableItems)

(***************************************************************************)
(* TrackedPerson                                                           *)
(***************************************************************************)
\* the zero time.Time of a field the struct literal leaves out
ZeroTime == -1

\* variant: a track is created with an empty history, so that the creating
\* detection is stored once
NewTrackedPerson_EmptyHistory(id, center, t) ==
    [ID |-> id,
     FirstSeen |-> t,
     LastSeen |-> t,
     Positions |-> <<>>,
     Poses |-> <<>>,
     LoiteringTime |-> 0,
     LastSuspiciousMovement |-> ZeroTime,
     LastLogTimes |-> <<>>]

\* &TrackedPerson{ID, FirstSeen, LastSeen, Positions: {personCenter}, LastLogTimes: make(...)}
NewTrackedPerson(id, center, t) ==
    [ID |-> id,
     FirstSeen |-> t,
     LastSeen |-> t,
     Positions |-> <<center>>,
     Poses |-> <<>>,
     LoiteringTime |-> 0,
     LastSuspiciousMovement |-> ZeroTime,
     LastLogTimes |-> <<>>]

\* the scenes in which the engine is that of internal/shoplifting
PoseScenes == {"pose", "posture"}
PoseVariant == scene \in PoseScenes

\* the capacity of a history: the literal 30 of the object-detection variant,
\* sd.config.MaxPoseHistory in the pose-estimation variant
HistoryCapacity == IF PoseVariant THEN config.MaxPoseHistory ELSE maxPositions

\* variant: the newest entry is dropped on overflow
LimitHistory_DropNewest(history) ==
    IF Len(history) > HistoryCapacity THEN SubSeq(history, 1, HistoryCapacity) ELSE history

\* variant: a history over the capacity is cut down to the capacity
LimitHistory_ToCapacity(history) ==
    IF Len(history) > HistoryCapacity
    THEN SubSeq(history, Len(history) - HistoryCapacity + 1, Len(history))
    ELSE history

\* if len(tracked.Positions) > maxPositions { tracked.Positions = tracked.Positions[1:] }
\* and the same statement for tracked.Poses
LimitHistory(history) ==
    IF Len(history) > HistoryCapacity THEN Tail(history) ELSE history

\* variant: the dwell time is measured from the previous sighting
UpdateTracked_DwellSinceLastSeen(tracked, center, t, found) ==
    [tracked EXCEPT !.LastSeen = t,
                    !.Positions = LimitHistory(Append(tracked.Positions, center)),
                    !.Poses = LimitHistory(tracked.Poses \o found),
                    !.LoiteringTime = t - tracked.LastSeen]

\* the body of the updateTracking loop after the track is known; found is
\* poses[i:i+1] when i < len(poses), and empty otherwise
UpdateTracked(tracked, center, t, found) ==
    [tracked EXCEPT !.LastSeen = t,
                    !.Positions = LimitHistory(Append(tracked.Positions, center)),
                    !.Poses = LimitHistory(tracked.Poses \o found),
                    !.LoiteringTime = t - tracked.FirstSeen]

\* variant: the id is derived from the number of live tracks
NewPersonID_FromCount(store, next) == Cardinality(DOMAIN store) + 1

\* trackedID = sd.nextPersonID
NewPersonID(store, next) == next

\* variant: the tracks first seen at the time of the current frame are not
\* candidates, as if the store were matched against a snapshot
findNearestTrackedPerson_Snapshot(store, center) ==
    LET near == {id \in DOMAIN store :
                     /\ Len(store[id].Positions) > 0
                     /\ store[id].FirstSeen # now
                     /\ WithinProximity(center, Last(store[id].Positions))}
        d(id) == Dist2(center, Last(store[id].Positions))
    IN  IF near = {} THEN {-1}
        ELSE {id \in near : \A o \in near : d(id) <= d(o)}

\* variant: any track strictly within the threshold may be returned
findNearestTrackedPerson_AnyNear(store, center) ==
    LET near == {id \in DOMAIN store :
                     /\ Len(store[id].Positions) > 0
                     /\ WithinProximity(center, Last(store[id].Positions))}
    IN  IF near = {} THEN {-1} ELSE near

\* The values findNearestTrackedPerson can return for center: -1 when no track
\* lies strictly within the threshold, else a track at the minimum distance.
\* The map is ranged over in an unspecified order and only a strictly smaller
\* distance replaces the candidate, so among equidistant tracks any may win.
findNearestTrackedPerson(store, center) ==
    LET near == {id \in DOMAIN store :
                     /\ Len(store[id].Positions) > 0
                     /\ WithinProximity(center, Last(store[id].Positions))}
        d(id) == Dist2(center, Last(store[id].Positions))
    IN  IF near = {} THEN {-1}
        ELSE {id \in near : \A o \in near : d(id) <= d(o)}

\* variant: a track expires once its age reaches the timeout
Expired_AtTimeout(tracked, t) == t - tracked.LastSeen >= Seconds(TrackerTimeout)

\* currentTime.Sub(tracked.LastSeen).Seconds() > sd.config.TrackerTimeout
Expired(tracked, t) == t - tracked.LastSeen > Seconds(TrackerTimeout)

(***************************************************************************)
(* Alert throttle                                                          *)
(***************************************************************************)
\* variant: a key is log-eligible on its first evaluation only
shouldLogBehavior_Once(tracked, behaviorType, t) ==
    behaviorType \notin DOMAIN tracked.LastLogTimes

\* the result of shouldLogBehavior(tracked, behaviorType)
shouldLogBehavior(tracked, behaviorType, t) ==
    ~ (/\ behaviorType \in DOMAIN tracked.LastLogTimes
       /\ t - tracked.LastLogTimes[behaviorType] < Seconds(LogThrottleSeconds))

\* variant: the timestamp is refreshed by every call, throttled or not
LastLogTimesAfter_Always(tracked, behaviorType, t) ==
    (behaviorType :> t) @@ tracked.LastLogTimes

\* tracked.LastLogTimes after shouldLogBehavior(tracked, behaviorType)
LastLogTimesAfter(tracked, behaviorType, t) ==
    IF shouldLogBehavior(tracked, behaviorType, t)
    THEN (behaviorType :> t) @@ tracked.LastLogTimes
    ELSE tracked.LastLogTimes

\* variant: the throttle key of a proximity event is its behavior type
ProximityKey_ByType(label) == "PROXIMIDADE_SUSPEITA"

\* fmt.Sprintf("PROXIMIDADE_SUSPEITA_%s", valuable.Label)
ProximityKey(label) == "PROXIMIDADE_SUSPEITA_" \o label

(***************************************************************************)
(* analyzeBehaviors                                                        *)
(***************************************************************************)
\* A confidence is kept as the fraction Num/Den of the operands the code
\* divides, so that two confidences compare exactly.
\* variant: the dwell time over the window without the limit of 1
LoiteringConfidence_NoLimit(tracked) ==
    [Num |-> tracked.LoiteringTime, Den |-> Seconds(LoiteringNormalization)]

\* variant: the dwell time is divided by the loitering threshold
LoiteringConfidence_ByThreshold(tracked) ==
    [Num |-> Min({tracked.LoiteringTime, Seconds(LoiteringTimeThreshold)}),
     Den |-> Seconds(LoiteringTimeThreshold)]

\* float32(math.Min(tracked.LoiteringTime.Seconds()/30.0, 1.0))
LoiteringConfidence(tracked) ==
    [Num |-> Min({tracked.LoiteringTime, Seconds(LoiteringNormalization)}),
     Den |-> Seconds(LoiteringNormalization)]

\* variant: the distance over the threshold, not its complement
ProximityConfidence_Ratio(d2) == [Num |-> Sqrt(d2), Den |-> ProximityThreshold]

\* float32(1.0 - distance/sd.config.ProximityThreshold), d2 the squared distance
ProximityConfidence(d2) == [Num |-> ProximityThreshold - Sqrt(d2), Den |-> ProximityThreshold]

NoConfidence == [Num |-> 0, Den |-> 1]

Behavior(type, tracked, label, d2, log) ==
    [Type |-> type,
     Confidence |-> CASE type = "PERMANENCIA_EXCESSIVA" -> LoiteringConfidence(tracked)
                      [] type = "PROXIMIDADE_SUSPEITA" -> ProximityConfidence(d2)
                      [] OTHER -> NoConfidence,
     PersonID |-> tracked.ID,
     Location |-> Last(tracked.Positions),
     Label |-> label,
     Dist2 |-> d2,
     LoiteringTime |-> tracked.LoiteringTime,
     ShouldLog |-> log]

\* tracked.LoiteringTime.Seconds() > sd.config.LoiteringTimeThreshold
LoiteringCondition(tracked) == tracked.LoiteringTime > Seconds(LoiteringTimeThreshold)

\* the loitering branch: the track and the events after it
AnalyzeLoitering(tracked, t) ==
    IF LoiteringCondition(tracked)
    THEN [tracked |-> [tracked EXCEPT !.LastLogTimes =
                           LastLogTimesAfter(tracked, "PERMANENCIA_EXCESSIVA", t)],
          events |-> <<Behavior("PERMANENCIA_EXCESSIVA", tracked, "", 0,
                                shouldLogBehavior(tracked, "PERMANENCIA_EXCESSIVA", t))>>]
    ELSE [tracked |-> tracked, events |-> <<>>]

\* variant: an item exactly at the threshold counts as near
ProximityCondition_Inclusive(tracked, valuable) ==
    /\ Len(tracked.Positions) > 0
    /\ Dist2(Last(tracked.Positions), Centroid(valuable.Box))
           <= ProximityThreshold * ProximityThreshold

\* distance < sd.config.ProximityThreshold for one valuable detection
ProximityCondition(tracked, valuable) ==
    /\ Len(tracked.Positions) > 0
    /\ WithinProximity(Last(tracked.Positions), Centroid(valuable.Box))

\* variant: a throttled proximity event is not appended to the slice
RECURSIVE AnalyzeProximity_OnlyLogged(_, _, _)
AnalyzeProximity_OnlyLogged(tracked, valuables, t) ==
    IF valuables = <<>> THEN [tracked |-> tracked, events |-> <<>>]
    ELSE LET valuable == Head(valuables)
             key == "PROXIMIDADE_SUSPEITA_" \o valuable.Label
             hit == /\ Len(tracked.Positions) > 0
                    /\ WithinProximity(Last(tracked.Positions), Centroid(valuable.Box))
             log == hit /\ shouldLogBehavior(tracked, key, t)
             after == IF hit
                      THEN [tracked EXCEPT !.LastLogTimes = LastLogTimesAfter(tracked, key, t)]
                      ELSE tracked
             ev == IF log
                   THEN <<[Type |-> "PROXIMIDADE_SUSPEITA",
                           Confidence |->
                               [Num |-> ProximityThreshold
                                          - Sqrt(Dist2(Last(tracked.Positions),
                                                       Centroid(valuable.Box))),
                                Den |-> ProximityThreshold],
                           PersonID |-> tracked.ID,
                           Location |-> Last(tracked.Positions),
                           Label |-> valuable.Label,
                           Dist2 |-> Dist2(Last(tracked.Positions), Centroid(valuable.Box)),
                           LoiteringTime |-> tracked.LoiteringTime,
                           ShouldLog |-> TRUE]>>
                   ELSE <<>>
             rest == AnalyzeProximity_OnlyLogged(after, Tail(valuables), t)
         IN  [tracked |-> rest.tracked, events |-> ev \o rest.events]

\* the proximity branch: one pass over valuableObjects in order
RECURSIVE AnalyzeProximity(_, _, _)
AnalyzeProximity(tracked, valuables, t) ==
    IF valuables = <<>> THEN [tracked |-> tracked, events |-> <<>>]
    ELSE LET valuable == Head(valuables)
             key == ProximityKey(valuable.Label)
             hit == ProximityCondition(tracked, valuable)
             after == IF hit
                      THEN [tracked EXCEPT !.LastLogTimes = LastLogTimesAfter(tracked, key, t)]
                      ELSE tracked
             ev == IF hit
                   THEN <<Behavior("PROXIMIDADE_SUSPEITA", tracked, valuable.Label,
                                   Dist2(Last(tracked.Positions), Centroid(valuable.Box)),
                                   shouldLogBehavior(tracked, key, t))>>
                   ELSE <<>>
             rest == AnalyzeProximity(after, Tail(valuables), t)
         IN  [tracked |-> rest.tracked, events |-> ev \o rest.events]

(***************************************************************************)
(* Movement-pattern analyzer                                               *)
(***************************************************************************)
MovementHistoryGate == 15
MovementWindow == 12
MovementMinPositions == 10
MovementCooldownSeconds == 8
SignificantMove == 5
ConfinementWindow == 10
ConfinementRadius == 30
SpeedVarianceLimit == 100
MinSpeedSamples == 5

RECURSIVE SumOver(_, _)
SumOver(f, S) ==
    IF S = {} THEN 0
    ELSE LET x == CHOOSE y \in S : TRUE IN f[x] + SumOver(f, S \ {x})

\* positions[len(positions)-k:]
LastK(s, k) == SubSeq(s, Len(s) - k + 1, Len(s))

\* dist1 > 5 && dist2 > 5 for the triplet ending at index i
Significant(positions, i) ==
    /\ Dist2(positions[i - 1], positions[i - 2]) > SignificantMove * SignificantMove
    /\ Dist2(positions[i], positions[i - 1]) > SignificantMove * SignificantMove

\* dotProduct < 0 for the triplet ending at index i
Reversal(positions, i) ==
    (positions[i - 1].X - positions[i - 2].X) * (positions[i].X - positions[i - 1].X)
      + (positions[i - 1].Y - positions[i - 2].Y) * (positions[i].Y - positions[i - 1].Y) < 0

significantMoves(positions) ==
    Cardinality({i \in 3..Len(positions) : Significant(positions, i)})

directionChanges(positions) ==
    Cardinality({i \in 3..Len(positions) : Significant(positions, i) /\ Reversal(positions, i)})

\* significantMoves > 0 and changeRate > 0.5
Erratic(positions) ==
    /\ significantMoves(positions) > 0
    /\ 2 * directionChanges(positions) > significantMoves(positions)

\* maxDistance < 30 around the mean of the last 10 positions (both sides scaled by 10)
Confined(positions) ==
    LET recent == LastK(positions, ConfinementWindow)
        n == Len(recent)
        sx == SumOver([i \in 1..n |-> recent[i].X], 1..n)
        sy == SumOver([i \in 1..n |-> recent[i].Y], 1..n)
    IN  \A i \in 1..n :
            (n * recent[i].X - sx) * (n * recent[i].X - sx)
              + (n * recent[i].Y - sy) * (n * recent[i].Y - sy)
                < ConfinementRadius * ConfinementRadius * n * n

\* len(speeds) > 5 and variance > 100, where variance = mean of squares - square of mean
Inconsistent(positions) ==
    LET m == Len(positions) - 1
        d2 == [i \in 1..m |-> Dist2(positions[i + 1], positions[i])]
        sq == SumOver(d2, 1..m)
        su == SumOver([i \in 1..m |-> Sqrt(d2[i])], 1..m)
    IN  /\ m > MinSpeedSamples
        /\ m * sq - su * su > SpeedVarianceLimit * m * m

\* variant: the sum of the sub-scores is returned as it is
analyzeSuspiciousMovement_NoLimit(positions) ==
    IF Len(positions) < MovementMinPositions
    THEN [Num |-> 0, Den |-> 10, Erratic |-> FALSE, Confined |-> FALSE, Inconsistent |-> FALSE,
          Full |-> FALSE]
    ELSE LET sm == significantMoves(positions)
             dc == directionChanges(positions)
             unit == IF sm > 0 THEN sm ELSE 1
         IN  [Num |-> (IF Erratic(positions) THEN 6 * dc ELSE 0)
                        + (IF Confined(positions) THEN 4 * unit ELSE 0)
                        + (IF Inconsistent(positions) THEN 3 * unit ELSE 0),
              Den |-> 10 * unit,
              Erratic |-> Erratic(positions),
              Confined |-> Confined(positions),
              Inconsistent |-> Inconsistent(positions),
              Full |-> Erratic(positions) /\ dc = sm]

\* analyzeSuspiciousMovement: the score as the fraction Num/Den, the sub-scores
\* 0.6*changeRate, 0.4 and 0.3 added and the sum limited to 1
analyzeSuspiciousMovement(positions) ==
    IF Len(positions) < MovementMinPositions
    THEN [Num |-> 0, Den |-> 10, Erratic |-> FALSE, Confined |-> FALSE, Inconsistent |-> FALSE,
          Full |-> FALSE]
    ELSE LET sm == significantMoves(positions)
             dc == directionChanges(positions)
             den == IF sm > 0 THEN 10 * sm ELSE 10
             unit == IF sm > 0 THEN sm ELSE 1
             raw == (IF Erratic(positions) THEN 6 * dc ELSE 0)
                      + (IF Confined(positions) THEN 4 * unit ELSE 0)
                      + (IF Inconsistent(positions) THEN 3 * unit ELSE 0)
         IN  [Num |-> IF raw > den THEN den ELSE raw,
              Den |-> den,
              Erratic |-> Erratic(positions),
              Confined |-> Confined(positions),
              Inconsistent |-> Inconsistent(positions),
              Full |-> Erratic(positions) /\ dc = sm]

\* variant: the alert fires on a simple majority of the score
ExceedsAlertThreshold_SimpleMajority(m) == 2 * m.Num > m.Den

\* movementAnalysis.Score > 0.9 in float32: the exact comparison, and also
\* 0.6 + 0.3, whose float32 sum 0.90000004 lies above float32(0.9) = 0.89999998
ExceedsAlertThreshold(m) ==
    \/ 10 * m.Num > 9 * m.Den
    \/ m.Full /\ ~m.Confined /\ m.Inconsistent

\* variant: the cooldown has passed once exactly 8 s have elapsed
CooldownPassed_Inclusive(tracked, t) ==
    \/ tracked.LastSuspiciousMovement = ZeroTime
    \/ t - tracked.LastSuspiciousMovement >= Seconds(MovementCooldownSeconds)

\* variant: no cooldown between two movement alerts of a track
CooldownPassed_NoCooldown(tracked, t) == TRUE

\* currentTime.Sub(tracked.LastSuspiciousMovement).Seconds() > 8.0
CooldownPassed(tracked, t) ==
    \/ tracked.LastSuspiciousMovement = ZeroTime
    \/ t - tracked.LastSuspiciousMovement > Seconds(MovementCooldownSeconds)

\* variant: the analysis starts as soon as the window of 12 positions is full
MovementCondition_FromWindow(tracked, t) ==
    /\ Len(tracked.Positions) >= MovementWindow
    /\ CooldownPassed(tracked, t)
    /\ ExceedsAlertThreshold(
           analyzeSuspiciousMovement(LastK(tracked.Positions, MovementWindow)))

\* the three nested conditions of the movement branch
MovementCondition(tracked, t) ==
    /\ Len(tracked.Positions) > MovementHistoryGate
    /\ CooldownPassed(tracked, t)
    /\ ExceedsAlertThreshold(
           analyzeSuspiciousMovement(LastK(tracked.Positions, MovementWindow)))

\* movementAnalysis.Score for the last 12 positions of the track
MovementScore(tracked) ==
    LET m == analyzeSuspiciousMovement(LastK(tracked.Positions, MovementWindow))
    IN  [Num |-> m.Num, Den |-> m.Den]

\* the movement branch: the track and the events after it
AnalyzeMovement(tracked, t) ==
    IF MovementCondition(tracked, t)
    THEN [tracked |-> [tracked EXCEPT
                           !.LastLogTimes = LastLogTimesAfter(tracked, "MOVIMENTO_SUSPEITO", t),
                           !.LastSuspiciousMovement = t],
          events |-> <<[Behavior("MOVIMENTO_SUSPEITO", tracked, "", 0,
                                 shouldLogBehavior(tracked, "MOVIMENTO_SUSPEITO", t))
                            EXCEPT !.Confidence = MovementScore(tracked)]>>]
    ELSE [tracked |-> tracked, events |-> <<>>]

\* one iteration of the loop over sd.trackedPeople
AnalyzeTracked(tracked, valuables, t) ==
    LET l == AnalyzeLoitering(tracked, t)
        p == AnalyzeProximity(l.tracked, valuables, t)
        m == AnalyzeMovement(p.tracked, t)
    IN  [tracked |-> m.tracked, events |-> l.events \o p.events \o m.events]

(***************************************************************************)
(* Pose-estimation variant: poses and its analyzeBehaviors                 *)
(***************************************************************************)
LoiteringTimeThresholdPose == 10
SuspiciousPoseThreshold == 8
KeypointConfidence == 30
CrouchHeight == 50
WristDistance == 30
PoseKeypoints == 17

\* a PoseKeypoint; the confidence in hundredths
Keypoint(x, y, c) == [X |-> x, Y |-> y, Confidence |-> c]

\* a PersonPose in the COCO layout: shoulders 5 and 6 (index from 0), wrists 9
\* and 10, hips 11 and 12; the other keypoints do not enter the analysis
MakePose(shoulderY, hipY, wristReach) ==
    [Keypoints |->
        [k \in 1..PoseKeypoints |->
            CASE k = 6 -> Keypoint(90, shoulderY, 90)
              [] k = 7 -> Keypoint(110, shoulderY, 90)
              [] k = 10 -> Keypoint(100 - wristReach, shoulderY + 40, 90)
              [] k = 11 -> Keypoint(100 + wristReach, shoulderY + 40, 90)
              [] k = 12 -> Keypoint(95, hipY, 90)
              [] k = 13 -> Keypoint(105, hipY, 90)
              [] OTHER -> Keypoint(100, 0, 90)]]

Upright == MakePose(100, 200, 60)
CrouchedHiding == MakePose(100, 140, 10)

Abs(x) == IF x < 0 THEN 0 - x ELSE x

\* variant: a compressed torso weighs 0.6
analyzeSuspiciousPose_HeavyCrouch(pose) ==
    IF Len(pose.Keypoints) < PoseKeypoints THEN 0
    ELSE LET leftShoulder == pose.Keypoints[6]
             rightShoulder == pose.Keypoints[7]
             leftWrist == pose.Keypoints[10]
             rightWrist == pose.Keypoints[11]
             leftHip == pose.Keypoints[12]
             rightHip == pose.Keypoints[13]
             torso == /\ leftShoulder.Confidence > KeypointConfidence
                      /\ rightShoulder.Confidence > KeypointConfidence
                      /\ leftHip.Confidence > KeypointConfidence
                      /\ rightHip.Confidence > KeypointConfidence
             crouch == torso /\ Abs((leftShoulder.Y + rightShoulder.Y)
                                      - (leftHip.Y + rightHip.Y)) < 2 * CrouchHeight
             wrists == /\ leftWrist.Confidence > KeypointConfidence
                       /\ rightWrist.Confidence > KeypointConfidence
             conceal == /\ wrists
                        /\ Abs(2 * leftWrist.X - (leftShoulder.X + rightShoulder.X))
                               < 2 * WristDistance
                        /\ Abs(2 * rightWrist.X - (leftShoulder.X + rightShoulder.X))
                               < 2 * WristDistance
         IN  (IF crouch THEN 6 ELSE 0) + (IF conceal THEN 3 ELSE 0)

\* analyzeSuspiciousPose, in tenths: 0.4 for a compressed torso, 0.3 for both
\* wrists near the shoulder centre line (both comparisons doubled to stay integral)
analyzeSuspiciousPose(pose) ==
    IF Len(pose.Keypoints) < PoseKeypoints THEN 0
    ELSE LET leftShoulder == pose.Keypoints[6]
             rightShoulder == pose.Keypoints[7]
             leftWrist == pose.Keypoints[10]
             rightWrist == pose.Keypoints[11]
             leftHip == pose.Keypoints[12]
             rightHip == pose.Keypoints[13]
             torso == /\ leftShoulder.Confidence > KeypointConfidence
                      /\ rightShoulder.Confidence > KeypointConfidence
                      /\ leftHip.Confidence > KeypointConfidence
                      /\ rightHip.Confidence > KeypointConfidence
             crouch == torso /\ Abs((leftShoulder.Y + rightShoulder.Y)
                                      - (leftHip.Y + rightHip.Y)) < 2 * CrouchHeight
             wrists == /\ leftWrist.Confidence > KeypointConfidence
                       /\ rightWrist.Confidence > KeypointConfidence
             conceal == /\ wrists
                        /\ Abs(2 * leftWrist.X - (leftShoulder.X + rightShoulder.X))
                               < 2 * WristDistance
                        /\ Abs(2 * rightWrist.X - (leftShoulder.X + rightShoulder.X))
                               < 2 * WristDistance
         IN  (IF crouch THEN 4 ELSE 0) + (IF conceal THEN 3 ELSE 0)

\* an event of the pose-estimation variant, whose SuspiciousBehavior has no ShouldLog
PoseBehavior(type, tracked, label, d2) ==
    [Type |-> type,
     PersonID |-> tracked.ID,
     Location |-> Last(tracked.Positions),
     Label |-> label,
     Dist2 |-> d2,
     LoiteringTime |-> tracked.LoiteringTime]

\* variant: a track without pose data is passed over by every analyzer
AnalyzeTrackedPose_NeedsPose(tracked, valuables, t) ==
    IF ~poseEnabled \/ Len(tracked.Poses) = 0
    THEN [tracked |-> tracked, events |-> <<>>]
    ELSE LET loiter == IF tracked.LoiteringTime > Seconds(LoiteringTimeThresholdPose)
                       THEN <<PoseBehavior("LOITERING", tracked, "", 0)>>
                       ELSE <<>>
             near == SelectSeq(valuables, LAMBDA v : ProximityCondition(tracked, v))
             prox == [k \in DOMAIN near |->
                         PoseBehavior("VALUABLE_PROXIMITY", tracked, near[k].Label,
                                      Dist2(Last(tracked.Positions), Centroid(near[k].Box)))]
             moved == MovementCondition(tracked, t)
             move == IF moved THEN <<PoseBehavior("SUSPICIOUS_MOVEMENT", tracked, "", 0)>>
                     ELSE <<>>
             posture == IF analyzeSuspiciousPose(Last(tracked.Poses)) > SuspiciousPoseThreshold
                        THEN <<PoseBehavior("SUSPICIOUS_POSE", tracked, "", 0)>>
                        ELSE <<>>
         IN  [tracked |-> IF moved THEN [tracked EXCEPT !.LastSuspiciousMovement = t]
                          ELSE tracked,
              events |-> loiter \o prox \o move \o posture]

\* one iteration of the loop over sd.trackedPeople in the pose-estimation
\* variant: no throttle, and a posture branch at the end
AnalyzeTrackedPose(tracked, valuables, t) ==
    LET loiter == IF tracked.LoiteringTime > Seconds(LoiteringTimeThresholdPose)
                  THEN <<PoseBehavior("LOITERING", tracked, "", 0)>>
                  ELSE <<>>
        near == SelectSeq(valuables, LAMBDA v : ProximityCondition(tracked, v))
        prox == [k \in DOMAIN near |->
                    PoseBehavior("VALUABLE_PROXIMITY", tracked, near[k].Label,
                                 Dist2(Last(tracked.Positions), Centroid(near[k].Box)))]
        moved == MovementCondition(tracked, t)
        move == IF moved THEN <<PoseBehavior("SUSPICIOUS_MOVEMENT", tracked, "", 0)>>
                ELSE <<>>
        posture == IF /\ poseEnabled
                      /\ Len(tracked.Poses) > 0
                      /\ analyzeSuspiciousPose(Last(tracked.Poses)) > SuspiciousPoseThreshold
                   THEN <<PoseBehavior("SUSPICIOUS_POSE", tracked, "", 0)>>
                   ELSE <<>>
    IN  [tracked |-> IF moved THEN [tracked EXCEPT !.LastSuspiciousMovement = t]
                     ELSE tracked,
         events |-> loiter \o prox \o move \o posture]

RECURSIVE BehaviorsOfPose(_, _, _, _)
BehaviorsOfPose(store, ids, valuables, t) ==
    IF ids = {} THEN <<>>
    ELSE LET id == Min(ids)
         IN  AnalyzeTrackedPose(store[id], valuables, t).events
                 \o BehaviorsOfPose(store, ids \ {id}, valuables, t)

\* the slice built by the loop, tracks visited in ascending id order (Go leaves
\* the order open; one track's iteration reads and writes that track only)
RECURSIVE BehaviorsOf(_, _, _, _)
BehaviorsOf(store, ids, valuables, t) ==
    IF ids = {} THEN <<>>
    ELSE LET id == Min(ids)
         IN  AnalyzeTracked(store[id], valuables, t).events
                 \o BehaviorsOf(store, ids \ {id}, valuables, t)

(***************************************************************************)
(* Frames the detector collaborator can return                             *)
(***************************************************************************)
Detection(class, box, label) == [ClassID |-> class, Box |-> box, Label |-> label]

\* a person whose bounding box has its centroid at (x, 100)
PersonAt(x) == Detection(PersonClassID, Rect(x - 20, 40, x + 20, 160), "person: 0.90")

\* a valuable item of the given class and label with its centroid at (x, 100)
ItemAt(class, x, label) == Detection(class, Rect(x - 10, 90, x + 10, 110), label)

\* Frames of the unconstrained specification.  People stand 40 px apart, the
\* outer two exactly ProximityThreshold apart; one phone is seen with two
\* confidences (parseDetection puts the confidence in the label); a car is
\* neither a person nor a valuable item; a notebook lies exactly
\* ProximityThreshold from the first person.
Phone90 == ItemAt(50, 150, "telefone: 0.90")
Phone85 == ItemAt(50, 150, "telefone: 0.85")
Car == Detection(7, Rect(300, 300, 340, 340), "car: 0.70")
Notebook == ItemAt(51, 100 + ProximityThreshold, "notebook: 0.80")

SampleFrames ==
    {<<>>,
     <<PersonAt(100)>>, <<PersonAt(140)>>, <<PersonAt(180)>>,
     <<PersonAt(100), PersonAt(140)>>, <<PersonAt(100), PersonAt(180)>>,
     <<Phone90>>, <<Phone85>>, <<Phone90, Phone85>>, <<Phone90, Phone90>>,
     <<Car, PersonAt(100), Phone90>>, <<PersonAt(100), Phone90, Notebook>>}

\* time elapsed since the previous cycle: none at the resolution of the model,
\* one tick, exactly the tracker timeout, or one tick more than it
TickSteps == {0, 1, Seconds(TrackerTimeout), Seconds(TrackerTimeout) + 1}

(***************************************************************************)
(* State machine                                                           *)
(***************************************************************************)
NoAssoc == [kind |-> "none", id |-> 0, center |-> Pt(0, 0), age |-> 0, before |-> <<>>,
            posesBefore |-> <<>>, found |-> <<>>]

Fresh ==
    /\ trackedPeople = <<>>
    /\ nextPersonID = 1
    /\ now = 0
    /\ pc = "idle"
    /\ detections = <<>>
    /\ people = <<>>
    /\ valuableObjects = <<>>
    /\ behaviors = <<>>
    /\ frames = 0
    /\ created = <<>>
    /\ lastAssoc = NoAssoc
    /\ staleAtStart = {}
    /\ prevLog = <<>>
    /\ prevEvent = <<>>
    /\ scenarioC = TRUE
    /\ prevCentroid = Pt(0, 0)
    /\ fed = 0
    /\ frameCount = 0
    /\ lastPoseFrame = 0
    /\ lastPoses = <<>>
    /\ poses = <<>>
    /\ output = <<>>

\* a program with one detector, whose fields are the variables above
NoHost == heap = <<>> /\ detectors = <<>> /\ inputs = <<>>

\* DefaultConfig, as far as the engine reads it through sd.config at run time
DefaultConfig == [MaxPoseHistory |-> MaxPoseHistory]

Start == Fresh /\ NoHost /\ config = DefaultConfig

Init == Start /\ scene = "sample" /\ poseEnabled = FALSE

\* DetectShoplifting up to the call of updateTracking: the frame arrives elapsed
\* ticks after the previous cycle, is read and filtered
BeginCycle(frame, elapsed) ==
    LET ps == filterPeople(frame)
        t == now + elapsed
    IN  /\ pc = "idle"
        /\ now' = t
        /\ detections' = frame
        /\ people' = ps
        /\ valuableObjects' = filterValuableObjects(frame)
        /\ behaviors' = <<>>
        /\ frames' = IF frames < MaxFrames THEN frames + 1 ELSE frames
        /\ lastAssoc' = NoAssoc
        /\ staleAtStart' = {id \in DOMAIN trackedPeople : Expired(trackedPeople[id], t)}
        /\ scenarioC' = (/\ scenarioC
                         /\ Len(ps) = 1
                         /\ frames > 0 => Dist2(Centroid(ps[1].Box), prevCentroid)
                                              < ProximityThreshold * ProximityThreshold)
        /\ prevCentroid' = IF Len(ps) > 0 THEN Centroid(ps[Len(ps)].Box) ELSE prevCentroid
        /\ pc' = IF ps = <<>> THEN "analyzeBehaviors" ELSE "updateTracking"
        /\ UNCHANGED <<trackedPeople, nextPersonID, created, prevLog, prevEvent, scene>>

DetectShoplifting ==
    \E frame \in SampleFrames, elapsed \in TickSteps :
        /\ frames < MaxFrames
        /\ now + elapsed <= MaxTime
        /\ nextPersonID + Len(filterPeople(frame)) <= MaxPersonID + 1
        /\ BeginCycle(frame, elapsed)
        /\ fed' = fed + Len(filterPeople(frame))
        /\ UNCHANGED poseVars
        /\ UNCHANGED <<output, config, heap, detectors, inputs>>

\* one iteration of the loop of updateTracking, for the next person detection
updateTracking ==
    /\ pc = "updateTracking"
    /\ people # <<>>
    /\ LET center == Centroid(Head(people).Box)
           i == Len(filterPeople(detections)) - Len(people)
           pose == IF i < Len(poses) THEN <<poses[i + 1]>> ELSE <<>>
       IN  \E found \in findNearestTrackedPerson(trackedPeople, center) :
               LET isNew == found = -1
                   trackedID == IF isNew THEN NewPersonID(trackedPeople, nextPersonID)
                                ELSE found
                   store == IF isNew
                            THEN (trackedID :> NewTrackedPerson(trackedID, center, now))
                                     @@ trackedPeople
                            ELSE trackedPeople
               IN  /\ trackedPeople' =
                          [store EXCEPT ![trackedID] = UpdateTracked(@, center, now, pose)]
                   /\ nextPersonID' = IF isNew THEN nextPersonID + 1 ELSE nextPersonID
                   /\ created' = IF isNew THEN Append(created, trackedID) ELSE created
                   /\ lastAssoc' = [kind |-> IF isNew THEN "new" ELSE "match",
                                    id |-> trackedID,
                                    center |-> center,
                                    age |-> IF isNew THEN 0
                                            ELSE now - trackedPeople[found].LastSeen,
                                    before |-> IF isNew THEN <<>>
                                               ELSE trackedPeople[found].Positions,
                                    posesBefore |-> IF isNew THEN <<>>
                                                    ELSE trackedPeople[found].Poses,
                                    found |-> pose]
    /\ people' = Tail(people)
    /\ pc' = IF Tail(people) = <<>> THEN "analyzeBehaviors" ELSE "updateTracking"
    /\ UNCHANGED <<now, detections, valuableObjects, behaviors, frames, staleAtStart,
                   prevLog, prevEvent, scenarioC, prevCentroid, scene, fed>>
    /\ UNCHANGED poseVars
    /\ UNCHANGED <<output, config, heap, detectors, inputs>>

\* variant: stale tracks are swept before the slice is returned
analyzeBehaviors_SweepFirst ==
    /\ ~PoseVariant
    /\ pc = "analyzeBehaviors"
    /\ trackedPeople' =
           [id \in {i \in DOMAIN trackedPeople : ~Expired(trackedPeople[i], now)} |->
               AnalyzeTracked(trackedPeople[id], valuableObjects, now).tracked]
    /\ behaviors' = BehaviorsOf(trackedPeople, DOMAIN trackedPeople, valuableObjects, now)
    /\ pc' = "cleanupOldTracking"
    /\ UNCHANGED <<nextPersonID, now, detections, people, valuableObjects, frames, created,
                   lastAssoc, staleAtStart, prevLog, prevEvent, scenarioC, prevCentroid, scene, fed>>
    /\ UNCHANGED poseVars
    /\ UNCHANGED <<output, config, heap, detectors, inputs>>

analyzeBehaviors ==
    /\ ~PoseVariant
    /\ pc = "analyzeBehaviors"
    /\ trackedPeople' = [id \in DOMAIN trackedPeople |->
                            AnalyzeTracked(trackedPeople[id], valuableObjects, now).tracked]
    /\ behaviors' = BehaviorsOf(trackedPeople, DOMAIN trackedPeople, valuableObjects, now)
    /\ pc' = "cleanupOldTracking"
    /\ UNCHANGED <<nextPersonID, now, detections, people, valuableObjects, frames, created,
                   lastAssoc, staleAtStart, prevLog, prevEvent, scenarioC, prevCentroid, scene, fed>>
    /\ UNCHANGED poseVars
    /\ UNCHANGED <<output, config, heap, detectors, inputs>>

\* analyzeBehaviors of the pose-estimation variant
analyzeBehaviorsPose ==
    /\ PoseVariant
    /\ pc = "analyzeBehaviors"
    /\ trackedPeople' = [id \in DOMAIN trackedPeople |->
                            AnalyzeTrackedPose(trackedPeople[id], valuableObjects, now).tracked]
    /\ behaviors' = BehaviorsOfPose(trackedPeople, DOMAIN trackedPeople, valuableObjects, now)
    /\ pc' = "cleanupOldTracking"
    /\ UNCHANGED <<nextPersonID, now, detections, people, valuableObjects, frames, created,
                   lastAssoc, staleAtStart, prevLog, prevEvent, scenarioC, prevCentroid, scene, fed>>
    /\ UNCHANGED poseVars
    /\ UNCHANGED <<output, config, heap, detectors, inputs>>

\* the <<id, Type>> pairs of the log-eligible events of a slice
LoggedPairs(evs) ==
    IF PoseVariant THEN {}
    ELSE {<<evs[i].PersonID, evs[i].Type>> : i \in {j \in DOMAIN evs : evs[j].ShouldLog}}

\* <<id, Type>> -> time and confidence of the loitering and movement events of
\* a slice, of which a track has at most one each
SingleEvents(evs, t) ==
    LET single == {i \in DOMAIN evs :
                      evs[i].Type \in {"PERMANENCIA_EXCESSIVA", "MOVIMENTO_SUSPEITO"}}
    IN  [k \in {<<evs[i].PersonID, evs[i].Type>> : i \in single} |->
            [Time |-> t,
             Confidence |-> evs[CHOOSE i \in single :
                                   <<evs[i].PersonID, evs[i].Type>> = k].Confidence]]

cleanupOldTracking ==
    /\ pc = "cleanupOldTracking"
    /\ trackedPeople' = [id \in {i \in DOMAIN trackedPeople : ~Expired(trackedPeople[i], now)}
                            |-> trackedPeople[id]]
    /\ prevLog' = [k \in DOMAIN prevLog \cup LoggedPairs(behaviors) |->
                      IF k \in LoggedPairs(behaviors) THEN now ELSE prevLog[k]]
    /\ prevEvent' = IF PoseVariant THEN prevEvent
                    ELSE SingleEvents(behaviors, now) @@ prevEvent
    /\ pc' = "idle"
    /\ UNCHANGED <<nextPersonID, now, detections, people, valuableObjects, behaviors, frames,
                   created, lastAssoc, staleAtStart, scenarioC, prevCentroid, scene, fed>>
    /\ UNCHANGED poseVars
    /\ UNCHANGED <<output, config, heap, detectors, inputs>>

Next ==
    \/ DetectShoplifting
    \/ updateTracking
    \/ analyzeBehaviors
    \/ cleanupOldTracking

Spec == Init /\ [][Next]_vars

(***************************************************************************)
(* One person followed over many frames                                    *)
(***************************************************************************)
WalkPatterns == {"zigzag", "drift"}

\* x coordinate of the n-th detection of the walker (n counted from 0); in the
\* pose scene the person stands still
WalkX(pattern, n) ==
    CASE pattern = "zigzag" -> 100 + 10 * (n % 2)
      [] pattern = "drift" -> 100 + 7 * n
      [] pattern = "jitter" -> <<100, 140, 100, 106>>[(n % 4) + 1]
      [] pattern = "sway" -> 100 + 70 * (n % 2)
      [] pattern = "lurch" -> 100 + 40 * (n \div 13)
      [] OTHER -> 100

\* the walker is detected once, or twice by overlapping boxes, in every frame
WalkFrame(pattern, n, copies) == [i \in 1..copies |-> PersonAt(WalkX(pattern, n + i - 1))]

InitWalk ==
    /\ Start
    /\ \/ scene \in WalkPatterns /\ poseEnabled = FALSE
       \/ scene = "pose" /\ poseEnabled \in BOOLEAN

DetectWalk ==
    \E copies \in 1..2, elapsed \in {0, 1} :
        /\ scene \in WalkPatterns
        /\ fed + copies <= MaxFed
        /\ now + elapsed <= MaxTime
        /\ BeginCycle(WalkFrame(scene, fed, copies), elapsed)
        /\ fed' = fed + copies
        /\ UNCHANGED poseVars
        /\ UNCHANGED <<output, config, heap, detectors, inputs>>

\* Poses the pose network can return for the first person: standing upright
\* with the arms out, crouched with the wrists at the chest, or none.
PoseOutcomes == {<<>>, <<Upright>>, <<CrouchedHiding>>}

\* variant: the network's pose is returned for every person of the frame
detectPoses_EveryPerson(ps, outcome) ==
    IF ~poseEnabled \/ ps = <<>> \/ outcome = <<>> THEN <<>>
    ELSE [i \in DOMAIN ps |-> outcome[1]]

\* detectPoses: at most one pose, for people[0]; what the network finds is not
\* decided by the engine
detectPoses(ps, outcome) ==
    IF ~poseEnabled \/ ps = <<>> THEN <<>>
    ELSE IF Dx(ps[1].Box) <= 0 \/ Dy(ps[1].Box) <= 0 THEN <<>>
    ELSE outcome

\* DetectShoplifting of the pose-estimation variant, up to updateTracking, fed
\* by a camera that delivers FramesPerSecond frames a second
DetectShopliftingPose ==
    \E outcome \in PoseOutcomes :
        LET ps == WalkFrame(scene, fed, 1)
            count == frameCount + 1
            active == poseEnabled /\ Len(filterPeople(ps)) > 0
            due == active /\ count - lastPoseFrame >= PoseInterval
            elapsed == IF count % (FramesPerSecond \div TicksPerSecond) = 0 THEN 1 ELSE 0
        IN  /\ scene = "pose"
            /\ frameCount < MaxPoseFrames
            /\ now + elapsed <= MaxTime
            /\ ~due => outcome = <<>>
            /\ BeginCycle(ps, elapsed)
            /\ fed' = fed + Len(ps)
            /\ frameCount' = count
            /\ poses' = IF ~active THEN <<>>
                        ELSE IF due THEN detectPoses(filterPeople(ps), outcome)
                        ELSE lastPoses
            /\ lastPoseFrame' = IF due THEN count ELSE lastPoseFrame
            /\ lastPoses' = IF due THEN detectPoses(filterPeople(ps), outcome) ELSE lastPoses
            /\ UNCHANGED <<poseEnabled, output, config, heap, detectors, inputs>>

NextWalk ==
    \/ DetectWalk
    \/ DetectShopliftingPose
    \/ updateTracking
    \/ analyzeBehaviors
    \/ analyzeBehaviorsPose
    \/ cleanupOldTracking

SpecWalk == InitWalk /\ [][NextWalk]_vars

(***************************************************************************)
(* Pose-estimation variant: a person near a phone, with and without poses  *)
(***************************************************************************)
MaxPostureFrames == 17
MaxPostureSeconds == 11

\* further poses of the first person: crouched with the arms out, upright with
\* the wrists at the chest, crouched and hiding but with every keypoint below
\* the confidence the analysis asks for, and a pose cut short of 17 keypoints
Crouched == MakePose(100, 140, 60)
Hiding == MakePose(100, 200, 10)
Unsure ==
    [Keypoints |-> [k \in 1..PoseKeypoints |->
                       [CrouchedHiding.Keypoints[k] EXCEPT !.Confidence = KeypointConfidence]]]
Partial == [Keypoints |-> SubSeq(CrouchedHiding.Keypoints, 1, PoseKeypoints - 1)]

PostureOutcomes == PoseOutcomes \cup {<<Crouched>>, <<Hiding>>, <<Unsure>>, <<Partial>>}

\* the first person moves to and fro beside a phone; a second person, who is
\* never people[0] and so never gets a pose, may stand 200 px away
PostureFrame(n, second) ==
    <<PersonAt(WalkX("jitter", n)), Phone90>> \o (IF second THEN <<PersonAt(300)>> ELSE <<>>)

\* time between two frames: none at the resolution of the model, or one tick
\* more than the loitering threshold of the variant
PostureSteps == {0, Seconds(LoiteringTimeThresholdPose) + 1}

InitPosture == Start /\ scene = "posture" /\ poseEnabled \in BOOLEAN

\* DetectShoplifting of the pose-estimation variant, up to updateTracking
DetectPosture ==
    \E outcome \in PostureOutcomes, second \in BOOLEAN, elapsed \in PostureSteps :
        LET frame == PostureFrame(frameCount, second)
            count == frameCount + 1
            active == poseEnabled /\ Len(filterPeople(frame)) > 0
            due == active /\ count - lastPoseFrame >= PoseInterval
        IN  /\ scene = "posture"
            /\ frameCount < MaxPostureFrames
            /\ now + elapsed <= Seconds(MaxPostureSeconds)
            /\ ~due => outcome = <<>>
            /\ BeginCycle(frame, elapsed)
            /\ fed' = fed + Len(filterPeople(frame))
            /\ frameCount' = count
            /\ poses' = IF ~active THEN <<>>
                        ELSE IF due THEN detectPoses(filterPeople(frame), outcome)
                        ELSE lastPoses
            /\ lastPoseFrame' = IF due THEN count ELSE lastPoseFrame
            /\ lastPoses' = IF due THEN detectPoses(filterPeople(frame), outcome) ELSE lastPoses
            /\ UNCHANGED <<poseEnabled, output, config, heap, detectors, inputs>>

NextPosture ==
    \/ DetectPosture
    \/ updateTracking
    \/ analyzeBehaviorsPose
    \/ cleanupOldTracking

SpecPosture == InitPosture /\ [][NextPosture]_vars

(***************************************************************************)
(* Pose-estimation variant with other history capacities                   *)
(***************************************************************************)
MaxCapacityFed == 18

\* capacities below, at and above the history the movement branch asks for
Capacities == {0, 1, MovementWindow, MovementHistoryGate + 1, MaxPoseHistory}

\* nothing, the walker, or the walker and a person 200 px away
CapacityFrames(n) == {<<>>, WalkFrame("jitter", n, 1), WalkFrame("jitter", n, 1) \o <<PersonAt(300)>>}

InitCapacity ==
    /\ Fresh
    /\ NoHost
    /\ scene = "posture"
    /\ poseEnabled = FALSE
    /\ config \in [MaxPoseHistory : Capacities]

DetectCapacity ==
    \E frame \in CapacityFrames(fed), elapsed \in {0, Seconds(TrackerTimeout) + 1} :
        /\ fed < MaxCapacityFed
        /\ now + elapsed <= MaxTime
        /\ BeginCycle(frame, elapsed)
        /\ fed' = fed + (IF frame = <<>> THEN 0 ELSE 1)
        /\ frameCount' = frameCount
        /\ poses' = <<>>
        /\ UNCHANGED <<poseEnabled, lastPoseFrame, lastPoses, output, config, heap, detectors, inputs>>

NextCapacity ==
    \/ DetectCapacity
    \/ updateTracking
    \/ analyzeBehaviorsPose
    \/ cleanupOldTracking

SpecCapacity == InitCapacity /\ [][NextCapacity]_vars

(***************************************************************************)
(* Two detectors in one hosting program                                    *)
(***************************************************************************)
MaxHostCycles == 2

DetectorNames == {"A", "B"}

\* variant: every detector gets the map at the first address
NewShopliftingDetector_SharedStore(h) ==
    [detector |-> [trackedPeople |-> 1, nextPersonID |-> 1, behaviors |-> <<>>],
     heap |-> (1 :> <<>>) @@ h]

\* NewShopliftingDetector: make(map[int]*TrackedPerson) yields a map at an
\* address not used before; nextPersonID is 1
NewShopliftingDetector(h) ==
    LET address == Cardinality(DOMAIN h) + 1
    IN  [detector |-> [trackedPeople |-> address, nextPersonID |-> 1, behaviors |-> <<>>],
         heap |-> (address :> <<>>) @@ h]

RECURSIVE TrackPeople_RefreshDwell(_, _, _, _)
\* variant: when the loop is done the dwell time of every track is brought
\* up to the cycle time
TrackPeople_RefreshDwell(store, next, ps, t) ==
    IF ps = <<>>
    THEN [trackedPeople |-> [id \in DOMAIN store |->
                                [store[id] EXCEPT !.LoiteringTime = t - store[id].FirstSeen]],
          nextPersonID |-> next]
    ELSE LET center == Centroid(Head(ps).Box)
             found == CHOOSE id \in findNearestTrackedPerson(store, center) : TRUE
             isNew == found = -1
             trackedID == IF isNew THEN NewPersonID(store, next) ELSE found
             grown == IF isNew THEN (trackedID :> NewTrackedPerson(trackedID, center, t)) @@ store
                      ELSE store
         IN  TrackPeople_RefreshDwell(
                 [grown EXCEPT ![trackedID] = UpdateTracked(@, center, t, <<>>)],
                 IF isNew THEN next + 1 ELSE next, Tail(ps), t)

RECURSIVE TrackPeople(_, _, _, _)
\* the loop of updateTracking over the person detections of a frame, on the
\* fields of one detector (the frames of this scene leave no distance tie)
TrackPeople(store, next, ps, t) ==
    IF ps = <<>> THEN [trackedPeople |-> store, nextPersonID |-> next]
    ELSE LET center == Centroid(Head(ps).Box)
             found == CHOOSE id \in findNearestTrackedPerson(store, center) : TRUE
             isNew == found = -1
             trackedID == IF isNew THEN NewPersonID(store, next) ELSE found
             grown == IF isNew THEN (trackedID :> NewTrackedPerson(trackedID, center, t)) @@ store
                      ELSE store
         IN  TrackPeople([grown EXCEPT ![trackedID] = UpdateTracked(@, center, t, <<>>)],
                         IF isNew THEN next + 1 ELSE next, Tail(ps), t)

\* one call of DetectShoplifting on the fields of one detector: tracking,
\* analysis, sweep; the slice it returns is kept in behaviors
RunCycle(store, next, frame, t) ==
    LET tracked == TrackPeople(store, next, filterPeople(frame), t)
        valuables == filterValuableObjects(frame)
        ids == DOMAIN tracked.trackedPeople
        analysed == [id \in ids |->
                        AnalyzeTracked(tracked.trackedPeople[id], valuables, t).tracked]
    IN  [trackedPeople |-> [id \in {i \in ids : ~Expired(analysed[i], t)} |-> analysed[id]],
         nextPersonID |-> tracked.nextPersonID,
         behaviors |-> BehaviorsOf(tracked.trackedPeople, ids, valuables, t)]

HostFrames == {<<>>, <<PersonAt(100), Phone90>>}
HostSteps == {0, Seconds(LogThrottleSeconds)}

\* the hosting program constructs detector A and then detector B
InitHost ==
    LET first == NewShopliftingDetector(<<>>)
        second == NewShopliftingDetector(first.heap)
    IN  /\ Fresh
        /\ scene = "host"
        /\ poseEnabled = FALSE
        /\ config = DefaultConfig
        /\ heap = second.heap
        /\ detectors = [d \in DetectorNames |->
                            IF d = "A" THEN first.detector ELSE second.detector]
        /\ inputs = [d \in DetectorNames |-> <<>>]

\* DetectShoplifting called on detector d with the next frame of its stream
DetectShopliftingOn(d) ==
    \E frame \in HostFrames, elapsed \in HostSteps :
        LET t == now + elapsed
            sd == detectors[d]
            after == RunCycle(heap[sd.trackedPeople], sd.nextPersonID, frame, t)
        IN  /\ scene = "host"
            /\ Len(inputs[d]) < MaxHostCycles
            /\ t <= MaxTime
            /\ now' = t
            /\ heap' = [heap EXCEPT ![sd.trackedPeople] = after.trackedPeople]
            /\ detectors' = [detectors EXCEPT ![d] =
                                 [sd EXCEPT !.nextPersonID = after.nextPersonID,
                                            !.behaviors = after.behaviors]]
            /\ inputs' = [inputs EXCEPT ![d] = Append(@, [frame |-> frame, time |-> t])]
            /\ UNCHANGED <<trackedPeople, nextPersonID, pc, detections, people,
                           valuableObjects, behaviors, frames, created, lastAssoc,
                           staleAtStart, prevLog, scenarioC, prevCentroid, scene, fed,
                           poseEnabled, frameCount, lastPoseFrame, lastPoses, poses,
                           prevEvent, output, config>>

StreamA == DetectShopliftingOn("A")
StreamB == DetectShopliftingOn("B")

NextHost ==
    \/ StreamA
    \/ StreamB

SpecHost == InitHost /\ [][NextHost]_vars

(***************************************************************************)
(* A crowded frame                                                         *)
(***************************************************************************)
CrowdSizes == {1, MaxTrackedPeople, MaxTrackedPeople + 1}

\* n people in a row, 100 px from one to the next
CrowdFrame(n) == [i \in 1..n |-> PersonAt(100 * i)]

InitCrowd == Start /\ scene = "crowd" /\ poseEnabled = FALSE

DetectCrowd ==
    \E n \in CrowdSizes, elapsed \in {0, 1} :
        /\ frames < MaxFrames
        /\ now + elapsed <= MaxTime
        /\ BeginCycle(CrowdFrame(n), elapsed)
        /\ fed' = fed + n
        /\ UNCHANGED poseVars
        /\ UNCHANGED <<output, config, heap, detectors, inputs>>

NextCrowd ==
    \/ DetectCrowd
    \/ updateTracking
    \/ analyzeBehaviors
    \/ cleanupOldTracking

SpecCrowd == InitCrowd /\ [][NextCrowd]_vars

(***************************************************************************)
(* A person who stays beside a valuable item, frame after frame            *)
(***************************************************************************)
\* time between two frames: none at the resolution of the model, one tick, or
\* more than the throttle interval
ThrottleSteps == {0, 1, Seconds(LogThrottleSeconds) + 1}

InitThrottle == Start /\ scene = "throttle" /\ poseEnabled = FALSE

\* one call of DetectShoplifting, elapsed ticks after the previous one
ThrottleCycle(elapsed) ==
    /\ scene = "throttle"
    /\ now + elapsed <= MaxTime
    /\ BeginCycle(<<PersonAt(100), Phone90>>, elapsed)
    /\ UNCHANGED fed
    /\ UNCHANGED poseVars
    /\ UNCHANGED <<output, config, heap, detectors, inputs>>

DetectThrottle == \E elapsed \in ThrottleSteps : ThrottleCycle(elapsed)

\* a frame arrives after the clock has moved on
ClockAdvances == \E elapsed \in ThrottleSteps \ {0} : ThrottleCycle(elapsed)

NextThrottle ==
    \/ DetectThrottle
    \/ updateTracking
    \/ analyzeBehaviors
    \/ cleanupOldTracking

\* analyzeBehaviors returns: it has no guard beyond the position in the cycle,
\* so the step is stated by the positions alone
AnalysisReturns == pc = "analyzeBehaviors" /\ pc' = "cleanupOldTracking"

\* DetectShoplifting runs to its end once called, the main loop calls it for
\* every frame, and the wall clock does not stand still for ever
SpecThrottle ==
    /\ InitThrottle
    /\ [][NextThrottle]_vars
    /\ WF_vars(DetectThrottle)
    /\ WF_vars(updateTracking)
    /\ WF_pc(AnalysisReturns)
    /\ WF_vars(cleanupOldTracking)
    /\ SF_vars(ClockAdvances)

(***************************************************************************)
(* A person who moves back and forth                                       *)
(***************************************************************************)
MaxMoveFed == 18
MaxMoveSeconds == 9

\* steps of 10 px to and fro, or of 40 px and 6 px in turn
MovePatterns == {"zigzag", "jitter"}

\* time between two frames: none at the resolution of the model, one tick,
\* exactly the cooldown, or one tick more than it
MoveSteps == {0, 1, Seconds(MovementCooldownSeconds), Seconds(MovementCooldownSeconds) + 1}

InitMove == Start /\ scene \in MovePatterns /\ poseEnabled = FALSE

DetectMove ==
    \E elapsed \in MoveSteps :
        /\ scene \in MovePatterns
        /\ fed < MaxMoveFed
        /\ now + elapsed <= Seconds(MaxMoveSeconds)
        /\ BeginCycle(WalkFrame(scene, fed, 1), elapsed)
        /\ fed' = fed + 1
        /\ UNCHANGED poseVars
        /\ UNCHANGED <<output, config, heap, detectors, inputs>>

NextMove ==
    \/ DetectMove
    \/ updateTracking
    \/ analyzeBehaviors
    \/ cleanupOldTracking

SpecMove == InitMove /\ [][NextMove]_vars

(***************************************************************************)
(* One person whose walk sets off each mix of the movement sub-scores      *)
(***************************************************************************)
\* standing still (confined only), a steady drift (nothing), a wide sway
\* (erratic only), a single lurch of 40 px (inconsistent, then confined as
\* well) and the walks of SpecMove (erratic and confined, with and without
\* the velocity sub-score)
ScorePatterns == {"still", "drift", "sway", "lurch"} \cup MovePatterns

InitScore == Start /\ scene \in ScorePatterns /\ poseEnabled = FALSE

DetectScore ==
    \E elapsed \in {0, 1} :
        /\ scene \in ScorePatterns
        /\ fed < MaxMoveFed
        /\ now + elapsed <= Seconds(MaxMoveSeconds)
        /\ BeginCycle(WalkFrame(scene, fed, 1), elapsed)
        /\ fed' = fed + 1
        /\ UNCHANGED poseVars
        /\ UNCHANGED <<output, config, heap, detectors, inputs>>

NextScore ==
    \/ DetectScore
    \/ updateTracking
    \/ analyzeBehaviors
    \/ cleanupOldTracking

SpecScore == InitScore /\ [][NextScore]_vars

(***************************************************************************)
(* Pose-estimation variant with several people and the cached poses        *)
(***************************************************************************)
MaxCacheFrames == 21

\* the frames of a fixed film: two people 200 px apart, one person seen twice
\* 40 px apart, the two people in the other order, nobody
CacheFrame(n) ==
    CASE n % 4 = 0 -> <<PersonAt(100), PersonAt(300)>>
      [] n % 4 = 1 -> <<PersonAt(100), PersonAt(140)>>
      [] n % 4 = 2 -> <<PersonAt(300), PersonAt(100)>>
      [] OTHER -> <<>>

InitCache == Start /\ scene = "pose" /\ poseEnabled \in BOOLEAN

\* DetectShoplifting of the pose-estimation variant, up to updateTracking
DetectCache ==
    \E outcome \in PoseOutcomes :
        LET frame == CacheFrame(frameCount)
            count == frameCount + 1
            active == poseEnabled /\ Len(filterPeople(frame)) > 0
            due == active /\ count - lastPoseFrame >= PoseInterval
        IN  /\ scene = "pose"
            /\ frameCount < MaxCacheFrames
            /\ ~due => outcome = <<>>
            /\ BeginCycle(frame, 0)
            /\ fed' = fed + Len(filterPeople(frame))
            /\ frameCount' = count
            /\ poses' = IF ~active THEN <<>>
                        ELSE IF due THEN detectPoses(filterPeople(frame), outcome)
                        ELSE lastPoses
            /\ lastPoseFrame' = IF due THEN count ELSE lastPoseFrame
            /\ lastPoses' = IF due THEN detectPoses(filterPeople(frame), outcome) ELSE lastPoses
            /\ UNCHANGED <<poseEnabled, output, config, heap, detectors, inputs>>

NextCache ==
    \/ DetectCache
    \/ updateTracking
    \/ analyzeBehaviorsPose
    \/ cleanupOldTracking

SpecCache == InitCache /\ [][NextCache]_vars

(***************************************************************************)
(* The YOLO detector in front of the engine                                *)
(***************************************************************************)
InputSize == 640
MinObjectSize == 20
MaxValidClassID == 364
ConfidenceThresholdPct == 25
NMSThresholdPct == 40

\* the camera frame, taken to have the size of the network input, so that
\* scaleX and scaleY are 1
FrameWidth == InputSize
FrameHeight == InputSize

\* one row of the network output: centre, width and height of the box, and
\* what findBestClass returns for the row, the confidence in hundredths
Row(cx, cy, w, h, class, pct) ==
    [CenterX |-> cx, CenterY |-> cy, Width |-> w, Height |-> h, ClassID |-> class,
     Confidence |-> pct]

Max2(a, b) == IF a > b THEN a ELSE b
Min2(a, b) == IF a < b THEN a ELSE b

\* image.Rect: the corners are put in order
ImageRect(x0, y0, x1, y1) == Rect(Min2(x0, x1), Min2(y0, y1), Max2(x0, x1), Max2(y0, y1))

\* convertToPixelCoordinates: the box around the centre, cut at the frame
convertToPixelCoordinates(row) ==
    LET left == Max2(0, row.CenterX - (row.Width \div 2))
        top == Max2(0, row.CenterY - (row.Height \div 2))
        right == Min2(FrameWidth, left + row.Width)
        bottom == Min2(FrameHeight, top + row.Height)
    IN  ImageRect(left, top, right, bottom)

\* the lines of the class-names file for the classes of the model
classNames(class) ==
    CASE class = PersonClassID -> "person"
      [] class = 50 -> "telefone"
      [] class = 51 -> "notebook"
      [] OTHER -> "car"

\* fmt.Sprintf("%.2f", confidence)
FormatConfidence(pct) ==
    LET digit == <<"0", "1", "2", "3", "4", "5", "6", "7", "8", "9">>
    IN  digit[(pct \div 100) + 1] \o "." \o digit[((pct \div 10) % 10) + 1]
            \o digit[(pct % 10) + 1]

\* variant: a box of any size is accepted
parseDetection_AnySize(row) ==
    IF row.ClassID < 0 \/ row.ClassID > MaxValidClassID
           \/ row.Confidence < ConfidenceThresholdPct
    THEN <<>>
    ELSE <<[ClassID |-> row.ClassID, Confidence |-> row.Confidence,
            Box |-> convertToPixelCoordinates(row),
            Label |-> classNames(row.ClassID) \o ": " \o FormatConfidence(row.Confidence)]>>

\* parseDetection: nil (the empty sequence) or the detection of the row
parseDetection(row) ==
    IF row.ClassID < 0 \/ row.ClassID > MaxValidClassID
           \/ row.Confidence < ConfidenceThresholdPct
    THEN <<>>
    ELSE IF Dx(convertToPixelCoordinates(row)) < MinObjectSize
               \/ Dy(convertToPixelCoordinates(row)) < MinObjectSize
    THEN <<>>
    ELSE <<[ClassID |-> row.ClassID, Confidence |-> row.Confidence,
            Box |-> convertToPixelCoordinates(row),
            Label |-> classNames(row.ClassID) \o ": " \o FormatConfidence(row.Confidence)]>>

RECURSIVE rawDetections(_)
\* the loop of processDetections: the detections of the rows, in their order
rawDetections(rows) ==
    IF rows = <<>> THEN <<>>
    ELSE parseDetection(Head(rows)) \o rawDetections(Tail(rows))

Area(b) == Dx(b) * Dy(b)

Intersection(a, b) ==
    Max2(0, Min2(a.MaxX, b.MaxX) - Max2(a.MinX, b.MinX))
        * Max2(0, Min2(a.MaxY, b.MaxY) - Max2(a.MinY, b.MinY))

\* intersection over union above the NMS threshold
Overlapping(a, b) ==
    100 * Intersection(a, b) > NMSThresholdPct * (Area(a) + Area(b) - Intersection(a, b))

\* the indices of the detections by falling confidence, equal ones in their order
ByConfidence(dets) ==
    LET rank(i) == Cardinality({j \in DOMAIN dets :
                       \/ dets[j].Confidence > dets[i].Confidence
                       \/ dets[j].Confidence = dets[i].Confidence /\ j < i}) + 1
    IN  [r \in DOMAIN dets |-> CHOOSE i \in DOMAIN dets : rank(i) = r]

RECURSIVE NMSBoxes(_, _, _)
\* gocv.NMSBoxes: from the best confidence down, an index is kept when its
\* confidence is above the threshold and its box overlaps no kept box
NMSBoxes(dets, order, kept) ==
    IF order = <<>> THEN kept
    ELSE LET i == Head(order)
             keep == /\ dets[i].Confidence > ConfidenceThresholdPct
                     /\ \A k \in DOMAIN kept : ~Overlapping(dets[i].Box, dets[kept[k]].Box)
         IN  NMSBoxes(dets, Tail(order), IF keep THEN Append(kept, i) ELSE kept)

\* applyNMS: the detections of the kept indices
applyNMS(dets) ==
    IF dets = <<>> THEN dets
    ELSE LET indices == NMSBoxes(dets, ByConfidence(dets), <<>>)
         IN  [k \in DOMAIN indices |-> dets[indices[k]]]

processDetections(rows) == applyNMS(rawDetections(rows))

\* YOLODetectorAdapter.Detect: the detections as the engine's DetectionResult
AdapterDetect(rows) ==
    LET results == processDetections(rows)
    IN  [k \in DOMAIN results |->
            Detection(results[k].ClassID, results[k].Box, results[k].Label)]

\* rows of the network output: a person as in the frames above, a phone, a
\* person box of no width and no height, one of no height at the place of
\* the person at 100, and one beyond the right edge that the frame cuts to
\* no width
PersonRow(x) == Row(x, 100, 40, 120, PersonClassID, 90)
PhoneRow == Row(150, 100, 20, 20, 50, 90)
PointRow == Row(300, 100, 0, 0, PersonClassID, 95)
FlatRow == Row(100, 100, 40, 0, PersonClassID, 80)
ClippedRow == Row(FrameWidth + 20, 100, 40, 120, PersonClassID, 85)

Outputs ==
    {<<>>,
     <<PersonRow(100)>>,
     <<PersonRow(100), PhoneRow>>,
     <<PointRow>>,
     <<PointRow, PersonRow(100)>>,
     <<PersonRow(100), FlatRow, PhoneRow>>,
     <<ClippedRow, PersonRow(140)>>}

\* the rows of a person whose box in the frame has a width and a height
SoundPersonRows(rows) ==
    {i \in DOMAIN rows :
        /\ rows[i].ClassID = PersonClassID
        /\ Dx(convertToPixelCoordinates(rows[i])) > 0
        /\ Dy(convertToPixelCoordinates(rows[i])) > 0}

InitDetector == Start /\ scene = "detector" /\ poseEnabled = FALSE

\* DetectShoplifting with the detector of the program behind sd.detector
DetectFrame ==
    \E rows \in Outputs, elapsed \in TickSteps :
        /\ scene = "detector"
        /\ frames < MaxFrames
        /\ now + elapsed <= MaxTime
        /\ BeginCycle(AdapterDetect(rows), elapsed)
        /\ output' = rows
        /\ UNCHANGED <<config, heap, detectors, inputs>>
        /\ fed' = fed + Cardinality(SoundPersonRows(rows))
        /\ UNCHANGED poseVars

NextDetector ==
    \/ DetectFrame
    \/ updateTracking
    \/ analyzeBehaviors
    \/ cleanupOldTracking

SpecDetector == InitDetector /\ [][NextDetector]_vars

(***************************************************************************)
(* A person who stands still for a long time                               *)
(***************************************************************************)
MaxDwellSeconds == 32

\* the person is in the frame or not; the first frame shows the person
DwellFrames == {<<PersonAt(100)>>, <<>>}

\* time between two frames: one second or the tracker timeout
DwellSteps == {Seconds(1), Seconds(TrackerTimeout)}

InitDwell == Start /\ scene = "dwell" /\ poseEnabled = FALSE

DetectDwell ==
    \E frame \in DwellFrames, elapsed \in DwellSteps :
        /\ scene = "dwell"
        /\ now + elapsed <= Seconds(MaxDwellSeconds)
        /\ IF trackedPeople = <<>> THEN nextPersonID = 1 /\ frame # <<>> ELSE TRUE
        /\ BeginCycle(frame, elapsed)
        /\ UNCHANGED fed
        /\ UNCHANGED poseVars
        /\ UNCHANGED <<output, config, heap, detectors, inputs>>

NextDwell ==
    \/ DetectDwell
    \/ updateTracking
    \/ analyzeBehaviors
    \/ cleanupOldTracking

SpecDwell == InitDwell /\ [][NextDwell]_vars

(***************************************************************************)
(* Properties                                                              *)
(***************************************************************************)
\* the key shouldLogBehavior was called with for an event
KeyOf(e) == IF e.Type = "PROXIMIDADE_SUSPEITA" THEN ProximityKey(e.Label) ELSE e.Type

EventCount(evs, id, type) ==
    Cardinality({i \in DOMAIN evs : evs[i].PersonID = id /\ evs[i].Type = type})

\* C1: track identifiers are unique and strictly increasing in creation order:
\* every newly created track gets an id greater than every id assigned before,
\* ids of expired tracks included, so no id is reused.
C1_IdsStrictlyIncreasing ==
    /\ \A i, j \in DOMAIN created : i < j => created[i] < created[j]
    /\ \A id \in DOMAIN trackedPeople :
           /\ trackedPeople[id].ID = id
           /\ \E i \in DOMAIN created : created[i] = id

\* a track was created after an earlier track had expired
C1_Witness ==
    /\ Len(created) >= 2
    /\ created[1] \notin DOMAIN trackedPeople
    /\ created[Len(created)] \in DOMAIN trackedPeople

\* C2: for a fixed pair (track id, SuspiciousBehavior.Type), no two returned
\* events with ShouldLog = true are less than one second apart, neither in
\* one cycle nor across cycles.
C2_OneLogPerSecondPerType ==
    pc = "cleanupOldTracking" =>
        \A i \in DOMAIN behaviors :
            behaviors[i].ShouldLog =>
                /\ \A j \in DOMAIN behaviors :
                       (/\ j # i
                        /\ behaviors[j].ShouldLog
                        /\ behaviors[j].PersonID = behaviors[i].PersonID)
                           => behaviors[j].Type # behaviors[i].Type
                /\ <<behaviors[i].PersonID, behaviors[i].Type>> \in DOMAIN prevLog
                       => now - prevLog[<<behaviors[i].PersonID, behaviors[i].Type>>]
                              >= Seconds(LogThrottleSeconds)

\* C3: after a cycle every track in the store satisfies now - lastSeen <=
\* trackerTimeout, and a track that violated this when the cycle began has
\* been removed by that cycle.
C3_StaleTracksRemoved ==
    (pc = "idle" /\ frames > 0) =>
        /\ \A id \in DOMAIN trackedPeople : ~Expired(trackedPeople[id], now)
        /\ staleAtStart \cap DOMAIN trackedPeople = {}

\* C4: a detection is never associated with a track whose age now - lastSeen
\* exceeds trackerTimeout; it becomes a new track with a new id.
C4_NoResurrection ==
    lastAssoc.kind = "match" => lastAssoc.age <= Seconds(TrackerTimeout)

\* C5: from an empty store, one person detection per frame, each at distance
\* below proximityThreshold from that of the previous frame, never creates a
\* second track: after every frame there is one track and it keeps its id.
C5_ScenarioC ==
    (scenarioC /\ frames >= 1 /\ pc # "updateTracking") =>
        /\ DOMAIN trackedPeople = {1}
        /\ created = <<1>>

\* the scenario ran for three frames and the person moved
C5_Witness ==
    /\ scenarioC
    /\ frames >= 3
    /\ pc = "idle"
    /\ 1 \in DOMAIN trackedPeople
    /\ Len(trackedPeople[1].Positions) >= 4
    /\ Last(trackedPeople[1].Positions) # trackedPeople[1].Positions[1]

\* C6: after every updateTracking iteration every position history, and in
\* the pose-estimation variant every pose history, has at most the configured
\* maximum of entries, also for a track matched by several detections of one
\* frame; on overflow the oldest entry is evicted and the order of the others
\* is kept.
C6_HistoryBounded ==
    /\ \A id \in DOMAIN trackedPeople :
           /\ Len(trackedPeople[id].Positions) <= HistoryCapacity
           /\ Len(trackedPeople[id].Poses) <= HistoryCapacity
    /\ (lastAssoc.kind = "match" /\ lastAssoc.id \in DOMAIN trackedPeople) =>
           /\ trackedPeople[lastAssoc.id].Positions =
                  IF Len(lastAssoc.before) >= HistoryCapacity
                  THEN Append(Tail(lastAssoc.before), lastAssoc.center)
                  ELSE Append(lastAssoc.before, lastAssoc.center)
           /\ trackedPeople[lastAssoc.id].Poses =
                  IF Len(lastAssoc.posesBefore \o lastAssoc.found) > HistoryCapacity
                  THEN Tail(lastAssoc.posesBefore \o lastAssoc.found)
                  ELSE lastAssoc.posesBefore \o lastAssoc.found

\* a full position history of distinct entries took the second of two
\* detections of one frame, or a full pose history took one more pose
C6_Witness ==
    /\ lastAssoc.kind = "match"
    /\ people = <<>>
    /\ \/ /\ scene \in WalkPatterns
          /\ Len(lastAssoc.before) = maxPositions
          /\ lastAssoc.before[1] # lastAssoc.before[2]
          /\ Len(detections) = 2
       \/ /\ scene = "pose"
          /\ Len(lastAssoc.posesBefore) = MaxPoseHistory
          /\ lastAssoc.posesBefore[1] # Last(lastAssoc.posesBefore)
          /\ lastAssoc.found # <<>>

\* C7: the number of tracks in the store never exceeds MaxTrackedPeople.
C7_TrackCountBounded == Cardinality(DOMAIN trackedPeople) <= MaxTrackedPeople

\* C8: every event of the slice carries the id of a track that is in the
\* store when the slice is complete, before the expiry sweep of the cycle.
C8_EventsReferenceStore ==
    pc = "cleanupOldTracking" =>
        \A i \in DOMAIN behaviors : behaviors[i].PersonID \in DOMAIN trackedPeople

\* an event was produced for a track that the sweep of the same cycle removes
C8_Witness ==
    /\ pc = "cleanupOldTracking"
    /\ \E i \in DOMAIN behaviors :
           /\ behaviors[i].PersonID \in DOMAIN trackedPeople
           /\ Expired(trackedPeople[behaviors[i].PersonID], now)

\* C9: in every cycle, for every track, each behavior condition that holds
\* yields its event in the returned slice whether or not it is throttled:
\* one loitering event, one proximity event per nearby valuable item, one
\* movement event.
C9_EventsAlwaysReturned ==
    [][pc = "analyzeBehaviors" =>
           \A id \in DOMAIN trackedPeople :
               /\ EventCount(behaviors', id, "PERMANENCIA_EXCESSIVA")
                      = IF LoiteringCondition(trackedPeople[id]) THEN 1 ELSE 0
               /\ EventCount(behaviors', id, "PROXIMIDADE_SUSPEITA")
                      = Cardinality({k \in DOMAIN valuableObjects :
                            ProximityCondition(trackedPeople[id], valuableObjects[k])})
               /\ EventCount(behaviors', id, "MOVIMENTO_SUSPEITO")
                      = IF MovementCondition(trackedPeople[id], now) THEN 1 ELSE 0]_vars

\* a throttled event is in the returned slice
C9_Witness ==
    /\ pc = "cleanupOldTracking"
    /\ \E i \in DOMAIN behaviors : ~behaviors[i].ShouldLog

\* C10 as the specification words it: after every evaluation whose condition is true the throttle
\* timestamp of its key is the time of that evaluation, log-eligible or not.
C10_TimestampEveryEvaluation ==
    pc = "cleanupOldTracking" =>
        \A i \in DOMAIN behaviors :
            LET e == behaviors[i]
                times == trackedPeople[e.PersonID].LastLogTimes
            IN  KeyOf(e) \in DOMAIN times /\ times[KeyOf(e)] = now

\* the keys shouldLogBehavior is called with for a track in one cycle
EvaluatedKeys(tracked, valuables, t) ==
    (IF LoiteringCondition(tracked) THEN {"PERMANENCIA_EXCESSIVA"} ELSE {})
      \cup {ProximityKey(valuables[k].Label) :
               k \in {j \in DOMAIN valuables : ProximityCondition(tracked, valuables[j])}}
      \cup (IF MovementCondition(tracked, t) THEN {"MOVIMENTO_SUSPEITO"} ELSE {})

\* C10 amended: the throttle timestamp of a key is set to the time of the
\* evaluation exactly when the evaluation is log-eligible (no earlier
\* timestamp, or one at least a second old); a throttled evaluation leaves it
\* unchanged, and so does a cycle that does not evaluate the key.
C10_TimestampOnlyWhenLogged ==
    [][pc = "analyzeBehaviors" =>
           \A id \in DOMAIN trackedPeople :
               LET pre == trackedPeople[id].LastLogTimes
                   post == trackedPeople'[id].LastLogTimes
                   keys == EvaluatedKeys(trackedPeople[id], valuableObjects, now)
               IN  /\ DOMAIN post = DOMAIN pre \cup keys
                   /\ \A key \in DOMAIN post :
                          IF /\ key \in keys
                             /\ \/ key \notin DOMAIN pre
                                \/ now - pre[key] >= Seconds(LogThrottleSeconds)
                          THEN post[key] = now
                          ELSE post[key] = pre[key]]_vars

\* a throttled evaluation kept the older timestamp
C10_Witness ==
    /\ pc = "cleanupOldTracking"
    /\ \E i \in DOMAIN behaviors :
           /\ ~behaviors[i].ShouldLog
           /\ trackedPeople[behaviors[i].PersonID].LastLogTimes[KeyOf(behaviors[i])] < now

\* the proximity event of track 1 in the returned slice, with ShouldLog = log
StreamEvent(log) ==
    /\ pc = "cleanupOldTracking"
    /\ \E i \in DOMAIN behaviors :
           /\ behaviors[i].PersonID = 1
           /\ behaviors[i].Type = "PROXIMIDADE_SUSPEITA"
           /\ behaviors[i].ShouldLog = log

\* C11: while the condition of a (track, throttle key) holds in every cycle,
\* cycles keep occurring and the clock advances, the throttle yields a steady
\* stream: the first evaluation is log-eligible, an evaluation is log-eligible
\* exactly when no log-eligible one lies less than a second back, and every
\* throttled evaluation that leaves a second before the horizon MaxTime is
\* followed by a log-eligible one.
C11_SteadyStream ==
    /\ [](pc = "cleanupOldTracking" =>
             \A i \in DOMAIN behaviors :
                 behaviors[i].ShouldLog <=>
                     \/ <<behaviors[i].PersonID, behaviors[i].Type>> \notin DOMAIN prevLog
                     \/ now - prevLog[<<behaviors[i].PersonID, behaviors[i].Type>>]
                            >= Seconds(LogThrottleSeconds))
    /\ <>StreamEvent(TRUE)
    /\ (StreamEvent(FALSE) /\ now + Seconds(LogThrottleSeconds) <= MaxTime)
           ~> StreamEvent(TRUE)

\* a log-eligible event follows an earlier log-eligible one of the same key
C11_Witness ==
    /\ StreamEvent(TRUE)
    /\ <<1, "PROXIMIDADE_SUSPEITA">> \in DOMAIN prevLog
    /\ Len(trackedPeople[1].Positions) > 3

\* the loitering events of a track in the returned slice
LoiteringEvents(id) ==
    {i \in DOMAIN behaviors :
        behaviors[i].Type = "PERMANENCIA_EXCESSIVA" /\ behaviors[i].PersonID = id}

\* C12: for every track in the store at analysis time, a loitering event is
\* emitted in a cycle exactly when now - firstSeen > loiteringThreshold, also
\* for a track that no detection of the cycle was matched to.
C12_LoiteringByAge ==
    pc = "cleanupOldTracking" =>
        \A id \in DOMAIN trackedPeople :
            LoiteringEvents(id) # {}
                <=> now - trackedPeople[id].FirstSeen > Seconds(LoiteringTimeThreshold)

\* C13: the confidence of a loitering event is min(dwell/30 s, 1), it never
\* exceeds 1, and it is not below that of the preceding loitering event of
\* the same track.
C13_LoiteringConfidenceMonotone ==
    pc = "cleanupOldTracking" =>
        \A i \in DOMAIN behaviors :
            behaviors[i].Type = "PERMANENCIA_EXCESSIVA" =>
                LET c == behaviors[i].Confidence
                    dwell == behaviors[i].LoiteringTime
                    key == <<behaviors[i].PersonID, "PERMANENCIA_EXCESSIVA">>
                IN  /\ 0 <= c.Num /\ c.Num <= c.Den
                    /\ IF dwell >= Seconds(30)
                       THEN c.Num = c.Den
                       ELSE c.Num * Seconds(30) = dwell * c.Den
                    /\ key \in DOMAIN prevEvent =>
                           prevEvent[key].Confidence.Num * c.Den
                               <= c.Num * prevEvent[key].Confidence.Den

\* a loitering event at the limit 1 follows one below the limit
C13_Witness ==
    /\ pc = "cleanupOldTracking"
    /\ \E i \in DOMAIN behaviors :
           LET key == <<behaviors[i].PersonID, "PERMANENCIA_EXCESSIVA">>
           IN  /\ behaviors[i].Type = "PERMANENCIA_EXCESSIVA"
               /\ behaviors[i].LoiteringTime > Seconds(30)
               /\ behaviors[i].Confidence.Num = behaviors[i].Confidence.Den
               /\ key \in DOMAIN prevEvent
               /\ prevEvent[key].Confidence.Num < prevEvent[key].Confidence.Den

\* one person has been detected at a fixed centroid in every frame for 25 s
ScenarioA ==
    /\ scenarioC
    /\ pc = "cleanupOldTracking"
    /\ 1 \in DOMAIN trackedPeople
    /\ now - trackedPeople[1].FirstSeen = Seconds(25)

\* C14: scenario A: a single person detected in every frame at a fixed
\* centroid for 25 consecutive seconds stays one track and yields a loitering
\* event of confidence 25/30.
C14_ScenarioA ==
    ScenarioA =>
        /\ DOMAIN trackedPeople = {1}
        /\ created = <<1>>
        /\ Cardinality(LoiteringEvents(1)) = 1
        /\ \A i \in LoiteringEvents(1) :
               behaviors[i].Confidence.Num * 30 = 25 * behaviors[i].Confidence.Den

\* scenario A was run with frames one second apart at the end
C14_Witness ==
    /\ ScenarioA
    /\ LoiteringEvents(1) # {}
    /\ Len(trackedPeople[1].Positions) > 6

\* the proximity events of the returned slice
ProximityEvents == {i \in DOMAIN behaviors : behaviors[i].Type = "PROXIMIDADE_SUSPEITA"}

\* C15: every proximity event has confidence 1 - distance/proximityThreshold,
\* which lies in [0,1] and is strictly decreasing in the distance; the
\* expression is 0 exactly at the threshold, and at 50 px with a threshold of
\* 80 px the confidence is 0.375.
C15_ProximityConfidence ==
    /\ ProximityConfidence(ProximityThreshold * ProximityThreshold).Num = 0
    /\ pc = "cleanupOldTracking" =>
           \A i \in ProximityEvents :
               LET c == behaviors[i].Confidence
               IN  /\ 0 <= c.Num /\ c.Num <= c.Den
                   /\ (c.Den - c.Num) * (c.Den - c.Num) * ProximityThreshold * ProximityThreshold
                          = behaviors[i].Dist2 * c.Den * c.Den
                   /\ c.Num = 0 <=> behaviors[i].Dist2 = ProximityThreshold * ProximityThreshold
                   /\ behaviors[i].Dist2 = 50 * 50 => c.Num * 1000 = 375 * c.Den
                   /\ \A j \in ProximityEvents :
                          behaviors[i].Dist2 < behaviors[j].Dist2 =>
                              c.Num * behaviors[j].Confidence.Den
                                  > behaviors[j].Confidence.Num * c.Den

\* one slice holds an event at 50 px and one at another distance
C15_Witness ==
    /\ pc = "cleanupOldTracking"
    /\ \E i, j \in ProximityEvents :
           /\ behaviors[i].Dist2 = 50 * 50
           /\ behaviors[j].Dist2 < behaviors[i].Dist2
           /\ behaviors[j].Dist2 > 0

\* the valuable-item detections of the frame strictly within the threshold of a track
NearbyItems(id) ==
    {k \in DOMAIN detections :
        /\ detections[k].ClassID \in DOMAIN valuableItems
        /\ Dist2(Last(trackedPeople[id].Positions), Centroid(detections[k].Box))
               < ProximityThreshold * ProximityThreshold}

\* C16: in each cycle, for each track in the store, the number of proximity
\* events of the track equals the number of valuable-item detections of the
\* frame at distance < proximityThreshold from the latest centroid of the
\* track: one per nearby item, none for an item at or beyond the threshold.
C16_OneEventPerNearbyItem ==
    pc = "cleanupOldTracking" =>
        \A id \in DOMAIN trackedPeople :
            EventCount(behaviors, id, "PROXIMIDADE_SUSPEITA") = Cardinality(NearbyItems(id))

\* a track has two nearby items, and another has one nearby item and one
\* exactly at the threshold
C16_Witness ==
    /\ pc = "cleanupOldTracking"
    /\ \E id \in DOMAIN trackedPeople : Cardinality(NearbyItems(id)) = 2
    /\ \E id \in DOMAIN trackedPeople :
           /\ Cardinality(NearbyItems(id)) = 1
           /\ \E k \in DOMAIN detections :
                  /\ detections[k].ClassID \in DOMAIN valuableItems
                  /\ Dist2(Last(trackedPeople[id].Positions), Centroid(detections[k].Box))
                         = ProximityThreshold * ProximityThreshold

\* the movement events of a slice for one track
MovementEvents(id) ==
    {i \in DOMAIN behaviors :
        /\ behaviors[i].PersonID = id
        /\ behaviors[i].Type \in {"MOVIMENTO_SUSPEITO", "SUSPICIOUS_MOVEMENT"}}

\* C17: for every window of the stored positions of every track the score of
\* analyzeSuspiciousMovement lies in [0, 1], whichever sub-scores contribute,
\* and so does the confidence of every movement event.
C17_MovementScoreClamped ==
    /\ pc = "analyzeBehaviors" =>
           \A id \in DOMAIN trackedPeople :
               \A k \in 1..Len(trackedPeople[id].Positions) :
                   LET m == analyzeSuspiciousMovement(LastK(trackedPeople[id].Positions, k))
                   IN  0 <= m.Num /\ m.Num <= m.Den
    /\ \A i \in DOMAIN behaviors :
           behaviors[i].Type = "MOVIMENTO_SUSPEITO" =>
               /\ 0 <= behaviors[i].Confidence.Num
               /\ behaviors[i].Confidence.Num <= behaviors[i].Confidence.Den

\* all three sub-scores contribute (raw sum 1.3) and the event carries 1
C17_Witness ==
    /\ pc = "cleanupOldTracking"
    /\ \E id \in DOMAIN trackedPeople :
           LET m == analyzeSuspiciousMovement(
                        LastK(trackedPeople[id].Positions,
                              Min({MovementWindow, Len(trackedPeople[id].Positions)})))
           IN  /\ m.Erratic /\ m.Full /\ m.Confined /\ m.Inconsistent
               /\ \E i \in MovementEvents(id) :
                      behaviors[i].Confidence.Num = behaviors[i].Confidence.Den

\* C18: a track with 15 or fewer positions yields no movement event, in
\* neither variant of the analysis, and a window of fewer than 10 positions
\* scores 0.
C18_NoMovementEventOnShortTrack ==
    /\ \A id \in DOMAIN trackedPeople :
           Len(trackedPeople[id].Positions) <= MovementHistoryGate =>
               /\ ~MovementCondition(trackedPeople[id], now)
               /\ (pc = "cleanupOldTracking" => MovementEvents(id) = {})
    /\ \A id \in DOMAIN trackedPeople :
           \A k \in 1..Min({Len(trackedPeople[id].Positions), MovementMinPositions - 1}) :
               analyzeSuspiciousMovement(LastK(trackedPeople[id].Positions, k)).Num = 0

\* a track of exactly 15 positions whose last 12 score above the alert
\* threshold has been analysed and no movement event was emitted
C18_Witness ==
    /\ pc = "cleanupOldTracking"
    /\ \E id \in DOMAIN trackedPeople :
           /\ Len(trackedPeople[id].Positions) = MovementHistoryGate
           /\ ExceedsAlertThreshold(analyzeSuspiciousMovement(
                  LastK(trackedPeople[id].Positions, MovementWindow)))
           /\ MovementEvents(id) = {}

\* C19: a movement event is emitted for a track only when the time since its
\* last movement alert exceeds 8 s and the score exceeds 0.9 (0.6 + 0.3 is
\* above 0.9 in float32, kept here as 9/10); the emission sets the track's
\* last-alert time to the emission time and no other cycle changes it; so two
\* movement events of a track are more than 8 s apart.
C19_MovementCooldown ==
    [][pc = "analyzeBehaviors" =>
          \A id \in DOMAIN trackedPeople :
              LET key == <<id, "MOVIMENTO_SUSPEITO">>
                  last == trackedPeople[id].LastSuspiciousMovement
                  fired == \E i \in DOMAIN behaviors' :
                               /\ behaviors'[i].PersonID = id
                               /\ behaviors'[i].Type = "MOVIMENTO_SUSPEITO"
              IN  /\ EventCount(behaviors', id, "MOVIMENTO_SUSPEITO") <= 1
                  /\ fired =>
                         /\ last = ZeroTime \/ now - last > Seconds(MovementCooldownSeconds)
                         /\ key \in DOMAIN prevEvent =>
                                /\ now - prevEvent[key].Time > Seconds(MovementCooldownSeconds)
                                /\ last = prevEvent[key].Time
                         /\ \A i \in DOMAIN behaviors' :
                                (behaviors'[i].PersonID = id
                                     /\ behaviors'[i].Type = "MOVIMENTO_SUSPEITO") =>
                                    10 * behaviors'[i].Confidence.Num
                                        >= 9 * behaviors'[i].Confidence.Den
                         /\ trackedPeople'[id].LastSuspiciousMovement = now
                  /\ ~fired =>
                         trackedPeople'[id].LastSuspiciousMovement = last]_vars

\* a track's second movement event, one tick after the cooldown has elapsed
C19_Witness ==
    /\ pc = "cleanupOldTracking"
    /\ \E id \in DOMAIN trackedPeople :
           /\ MovementEvents(id) # {}
           /\ <<id, "MOVIMENTO_SUSPEITO">> \in DOMAIN prevEvent
           /\ now - prevEvent[<<id, "MOVIMENTO_SUSPEITO">>].Time
                  = Seconds(MovementCooldownSeconds) + 1

\* the rows of a person whose box in the frame has no width or no height
DegenerateRows(rows) ==
    {i \in DOMAIN rows :
        /\ rows[i].ClassID = PersonClassID
        /\ \/ Dx(convertToPixelCoordinates(rows[i])) = 0
           \/ Dy(convertToPixelCoordinates(rows[i])) = 0}

\* the rows without the degenerate person rows, in their order
WithoutDegenerate(rows) ==
    LET sound == {i \in DOMAIN rows : i \notin DegenerateRows(rows)}
        nth(k) == CHOOSE i \in sound : Cardinality({j \in sound : j < i}) = k - 1
    IN  [k \in 1..Cardinality(sound) |-> rows[nth(k)]]

\* the number of positions stored in all tracks
StoredPositions ==
    SumOver([id \in DOMAIN trackedPeople |-> Len(trackedPeople[id].Positions)],
            DOMAIN trackedPeople)

NonPosture(evs) == SelectSeq(evs, LAMBDA e : e.Type # "SUSPICIOUS_POSE")

\* the store with every track's pose records removed
WithoutPoses(store) == [id \in DOMAIN store |-> [store[id] EXCEPT !.Poses = <<>>]]

\* C21: a track without pose data (pose estimation disabled, or no pose
\* record) gets no posture event, and the loitering, proximity and movement
\* events of every track, and the movement-alert times, are those the
\* analysis yields for the same store without any pose record.
C21_PostureSkippedWithoutPose ==
    [][(pc = "analyzeBehaviors" /\ PoseVariant) =>
          /\ NonPosture(behaviors')
                 = NonPosture(BehaviorsOfPose(WithoutPoses(trackedPeople),
                                              DOMAIN trackedPeople, valuableObjects, now))
          /\ \A id \in DOMAIN trackedPeople :
                 /\ (~poseEnabled \/ trackedPeople[id].Poses = <<>>) =>
                        EventCount(behaviors', id, "SUSPICIOUS_POSE") = 0
                 /\ trackedPeople'[id].LastSuspiciousMovement =
                        AnalyzeTrackedPose(WithoutPoses(trackedPeople)[id],
                                           valuableObjects, now).tracked.LastSuspiciousMovement
                 /\ trackedPeople'[id].Poses = trackedPeople[id].Poses]_vars

\* one track with a pose record and one without have both been analysed, and
\* both carry a loitering event, the first a proximity and a movement event too
C21_Witness ==
    /\ pc = "cleanupOldTracking"
    /\ scene = "posture"
    /\ poseEnabled
    /\ \E a, b \in DOMAIN trackedPeople :
           /\ trackedPeople[a].Poses # <<>>
           /\ trackedPeople[b].Poses = <<>>
           /\ EventCount(behaviors, a, "LOITERING") = 1
           /\ EventCount(behaviors, b, "LOITERING") = 1
           /\ EventCount(behaviors, a, "VALUABLE_PROXIMITY") = 1
           /\ EventCount(behaviors, a, "SUSPICIOUS_MOVEMENT") = 1

\* C22: every track in the store has a position, so the last position read
\* by findNearestTrackedPerson and by the analyzers exists, and a track that
\* passes the gate of the movement branch has the 12 positions the branch
\* slices off, whatever the history capacity.
C22_HistoryNeverEmpty ==
    \A id \in DOMAIN trackedPeople :
        /\ Len(trackedPeople[id].Positions) >= 1
        /\ Len(trackedPeople[id].Positions) > MovementHistoryGate =>
               Len(trackedPeople[id].Positions) - MovementWindow >= 0
        /\ (poseEnabled /\ Len(trackedPeople[id].Poses) > 0) =>
               Len(trackedPeople[id].Poses) - 1 >= 0

\* with a capacity of 0 a track has been matched again, keeps one position
\* and has a successor in the store
C22_Witness ==
    /\ pc = "cleanupOldTracking"
    /\ config.MaxPoseHistory = 0
    /\ \E id \in DOMAIN trackedPeople :
           /\ trackedPeople[id].LastSeen > trackedPeople[id].FirstSeen
           /\ Len(trackedPeople[id].Positions) = 1
    /\ Cardinality(DOMAIN trackedPeople) = 2

\* with a capacity of 16 the movement branch has sliced a full history
FullHistorySliced ==
    /\ pc = "cleanupOldTracking"
    /\ config.MaxPoseHistory = MovementHistoryGate + 1
    /\ \E id \in DOMAIN trackedPeople :
           /\ Len(trackedPeople[id].Positions) = MovementHistoryGate + 1
           /\ EventCount(behaviors, id, "SUSPICIOUS_MOVEMENT") = 1

RECURSIVE Replay(_, _)
\* a detector of its own, run alone over the first n cycles of a stream
Replay(stream, n) ==
    IF n = 0 THEN [trackedPeople |-> <<>>, nextPersonID |-> 1, behaviors |-> <<>>]
    ELSE LET before == Replay(stream, n - 1)
         IN  RunCycle(before.trackedPeople, before.nextPersonID,
                      stream[n].frame, stream[n].time)

\* C23: the track store (which holds the throttle state), the id counter and
\* the events last returned by each detector are those of a detector that
\* ran alone on the same frames at the same times, whatever the other
\* detector did in between; the two stores are different maps.
C23_DetectorsShareNoState ==
    /\ \A d \in DOMAIN detectors :
           LET alone == Replay(inputs[d], Len(inputs[d]))
           IN  /\ heap[detectors[d].trackedPeople] = alone.trackedPeople
               /\ detectors[d].nextPersonID = alone.nextPersonID
               /\ detectors[d].behaviors = alone.behaviors
    /\ \A d, e \in DOMAIN detectors :
           d # e => detectors[d].trackedPeople # detectors[e].trackedPeople

\* A has run two cycles around the one cycle of B; B holds a track with
\* throttle state and returned a logged event, and A's store differs
C23_Witness ==
    /\ scene = "host"
    /\ Len(inputs["A"]) = 2
    /\ Len(inputs["B"]) = 1
    /\ inputs["A"][1].time <= inputs["B"][1].time
    /\ inputs["B"][1].time <= inputs["A"][2].time
    /\ \E i \in DOMAIN detectors["B"].behaviors : detectors["B"].behaviors[i].ShouldLog
    /\ \E id \in DOMAIN heap[detectors["B"].trackedPeople] :
           heap[detectors["B"].trackedPeople][id].LastLogTimes # <<>>
    /\ heap[detectors["A"].trackedPeople] # heap[detectors["B"].trackedPeople]

\* the squared distance from a point to the most recent centroid of a track
ToTrack(store, id, center) == Dist2(center, Last(store[id].Positions))

\* C24: each iteration of updateTracking takes the next person detection in
\* arrival order; if some track's most recent centroid lies strictly within
\* proximityThreshold of the detection's centroid, a track at the minimum
\* distance gets the centroid appended and lastSeen set to the cycle time, and
\* nothing else in the store changes; otherwise (distance equal to the
\* threshold included) a track with an id never used before is created.
C24_NearestTrackAssociation ==
    [][pc = "updateTracking" =>
          LET center == Centroid(Head(people).Box)
              near == {id \in DOMAIN trackedPeople :
                          ToTrack(trackedPeople, id, center)
                              < ProximityThreshold * ProximityThreshold}
          IN  /\ people' = Tail(people)
              /\ IF near = {}
                 THEN /\ DOMAIN trackedPeople' = DOMAIN trackedPeople \cup {nextPersonID}
                      /\ nextPersonID \notin DOMAIN trackedPeople
                      /\ \A k \in DOMAIN created : created[k] # nextPersonID
                      /\ nextPersonID' = nextPersonID + 1
                      /\ trackedPeople'[nextPersonID].FirstSeen = now
                      /\ trackedPeople'[nextPersonID].LastSeen = now
                      /\ Last(trackedPeople'[nextPersonID].Positions) = center
                      /\ \A o \in DOMAIN trackedPeople : trackedPeople'[o] = trackedPeople[o]
                 ELSE /\ DOMAIN trackedPeople' = DOMAIN trackedPeople
                      /\ nextPersonID' = nextPersonID
                      /\ \E id \in near :
                             /\ \A o \in near : ToTrack(trackedPeople, id, center)
                                                     <= ToTrack(trackedPeople, o, center)
                             /\ trackedPeople'[id].LastSeen = now
                             /\ trackedPeople'[id].Positions
                                    = Append(trackedPeople[id].Positions, center)
                             /\ trackedPeople'[id].FirstSeen = trackedPeople[id].FirstSeen
                             /\ \A o \in DOMAIN trackedPeople \ {id} :
                                    trackedPeople'[o] = trackedPeople[o]]_vars

\* a detection has been matched to the nearer of two tracks that both lie
\* within the threshold, after a detection exactly at the threshold from the
\* only track had created the second one
C24_Witness ==
    /\ lastAssoc.kind = "match"
    /\ \E o \in DOMAIN trackedPeople \ {lastAssoc.id} :
           /\ ToTrack(trackedPeople, o, lastAssoc.center)
                  < ProximityThreshold * ProximityThreshold
           /\ Dist2(lastAssoc.center, Last(lastAssoc.before))
                  < ToTrack(trackedPeople, o, lastAssoc.center)
    /\ \E a, b \in DOMAIN trackedPeople :
           Dist2(trackedPeople[a].Positions[1], trackedPeople[b].Positions[1])
               = ProximityThreshold * ProximityThreshold

\* the tracks at the minimum distance among those strictly within the
\* threshold of a point
NearestTracks(store, center) ==
    LET near == {id \in DOMAIN store :
                    ToTrack(store, id, center) < ProximityThreshold * ProximityThreshold}
    IN  {id \in near : \A o \in near : ToTrack(store, id, center) <= ToTrack(store, o, center)}

\* C25: when a detection is equidistant from several tracks within the
\* threshold, the tie is broken by a stable order, the first track (the one
\* created first, with the least id) winning, so that the assignment is a
\* function of the detections and the clock.
C25_DeterministicTieBreak ==
    [][pc = "updateTracking" =>
          LET nearest == NearestTracks(trackedPeople, Centroid(Head(people).Box))
          IN  nearest # {} =>
                  /\ lastAssoc'.kind = "match"
                  /\ lastAssoc'.id = Min(nearest)]_vars

\* a detection equidistant from two tracks has been matched to the one
\* created later
TieWonByLaterTrack ==
    /\ lastAssoc.kind = "match"
    /\ \E o \in DOMAIN trackedPeople :
           /\ o < lastAssoc.id
           /\ ToTrack(trackedPeople, o, lastAssoc.center)
                  = Dist2(lastAssoc.center, Last(lastAssoc.before))

\* C26: updateTracking called with no person detection returns the store and
\* the id counter as they were: the set of tracks and every field of every
\* track, whatever the time of the call.
C26_EmptyFrameMutatesNothing ==
    \A d \in DOMAIN detectors :
        \A t \in now..MaxTime :
            LET store == heap[detectors[d].trackedPeople]
                after == TrackPeople(store, detectors[d].nextPersonID, filterPeople(<<>>), t)
            IN  /\ after.trackedPeople = store
                /\ after.nextPersonID = detectors[d].nextPersonID

\* a detector whose store holds a track has just run a cycle on a frame
\* without people, later than the track was last seen
C26_Witness ==
    \E d \in DOMAIN detectors :
        /\ Len(inputs[d]) = 2
        /\ filterPeople(inputs[d][2].frame) = <<>>
        /\ \E id \in DOMAIN heap[detectors[d].trackedPeople] :
               /\ heap[detectors[d].trackedPeople][id].LastSeen < inputs[d][2].time
               /\ heap[detectors[d].trackedPeople][id].LoiteringTime
                      < now - heap[detectors[d].trackedPeople][id].FirstSeen

\* the ids of the tracks that were created and are no longer in the store
Removed == {created[k] : k \in DOMAIN created} \ DOMAIN trackedPeople

\* C27: tracks leave the store only in the sweep, which runs once per cycle
\* when the slice of the analyzers is complete and leaves that slice as it
\* is, events of the tracks it removes included; the slice of a later cycle
\* carries no id of a track removed before.
C27_SweepAfterAnalyzers ==
    /\ [][DOMAIN trackedPeople \ DOMAIN trackedPeople' # {} =>
              /\ pc = "cleanupOldTracking"
              /\ pc' = "idle"
              /\ behaviors' = behaviors
              /\ \A id \in DOMAIN trackedPeople \ DOMAIN trackedPeople' :
                     now - trackedPeople[id].LastSeen > Seconds(TrackerTimeout)]_vars
    /\ [][pc = "cleanupOldTracking" => pc' = "idle"]_vars
    /\ [](pc # "idle" => \A i \in DOMAIN behaviors : behaviors[i].PersonID \notin Removed)

\* the sweep has removed a track that has a proximity event in the slice the
\* cycle returns
C27_Witness ==
    /\ pc = "idle"
    /\ \E i \in DOMAIN behaviors :
           /\ behaviors[i].PersonID \in Removed
           /\ behaviors[i].Type = "PROXIMIDADE_SUSPEITA"

\* C28: the sweep removes exactly the tracks with now - lastSeen strictly
\* greater than TrackerTimeout, a track whose age equals the timeout staying,
\* and leaves every field of every surviving track and the id counter as
\* they were.
C28_SweepRemovesExactlyStale ==
    [][pc = "cleanupOldTracking" =>
          /\ DOMAIN trackedPeople' =
                 {id \in DOMAIN trackedPeople :
                     now - trackedPeople[id].LastSeen <= Seconds(TrackerTimeout)}
          /\ \A id \in DOMAIN trackedPeople' : trackedPeople'[id] = trackedPeople[id]
          /\ nextPersonID' = nextPersonID]_vars

\* a sweep has kept a track whose age is exactly the timeout and removed
\* one a tick older
C28_Witness ==
    /\ pc = "idle"
    /\ \E id \in DOMAIN trackedPeople :
           now - trackedPeople[id].LastSeen = Seconds(TrackerTimeout)
    /\ staleAtStart \cap Removed # {}

\* the detections of a person or of a class of the valuable-item catalog
Relevant(dets) ==
    SelectSeq(dets, LAMBDA det :
        det.ClassID = PersonClassID \/ det.ClassID \in DOMAIN valuableItems)

\* C29: the people and the valuable objects a cycle works on are those of the
\* frame without its detections of other classes; every tracking step takes
\* a class-0 detection of the frame, every proximity event names a catalog
\* detection of the frame, and the detection list stays as the detector
\* returned it until the cycle returns.
C29_OnlyPeopleAndCatalogItems ==
    /\ [][pc = "idle" =>
              /\ people' = filterPeople(Relevant(detections'))
              /\ valuableObjects' = filterValuableObjects(Relevant(detections'))
              /\ \A i \in DOMAIN people' : people'[i].ClassID = PersonClassID
              /\ \A i \in DOMAIN valuableObjects' :
                     valuableObjects'[i].ClassID \in DOMAIN valuableItems]_vars
    /\ [][pc # "idle" => detections' = detections]_vars
    /\ [][pc = "updateTracking" =>
              /\ Head(people).ClassID = PersonClassID
              /\ \E i \in DOMAIN detections : detections[i] = Head(people)
              /\ lastAssoc'.center = Centroid(Head(people).Box)]_vars
    /\ [][pc = "analyzeBehaviors" =>
              \A i \in DOMAIN behaviors' :
                  behaviors'[i].Type = "PROXIMIDADE_SUSPEITA" =>
                      \E k \in DOMAIN detections :
                          /\ detections[k].ClassID \in DOMAIN valuableItems
                          /\ detections[k].Label = behaviors'[i].Label]_vars

\* a frame with a car, a person and a phone has been analysed: the list
\* still holds the car, there is one track and one proximity event
C29_Witness ==
    /\ pc = "cleanupOldTracking"
    /\ Len(detections) = 3
    /\ \E i \in DOMAIN detections :
           detections[i].ClassID \notin {PersonClassID} \cup DOMAIN valuableItems
    /\ Cardinality(DOMAIN trackedPeople) = 1
    /\ Len(behaviors) = 1
    /\ behaviors[1].Type = "PROXIMIDADE_SUSPEITA"

\* the first proximity event of a slice for a track and an item label
FirstForLabel(evs, i) ==
    \A j \in 1..(i - 1) :
        ~(/\ evs[j].Type = "PROXIMIDADE_SUSPEITA"
          /\ evs[j].PersonID = evs[i].PersonID
          /\ evs[j].Label = evs[i].Label)

C31_MovementEventAlwaysLogged ==
    /\ \A i \in DOMAIN behaviors :
           behaviors[i].Type = "MOVIMENTO_SUSPEITO" => behaviors[i].ShouldLog
    /\ \A id \in DOMAIN trackedPeople :
           LET tracked == trackedPeople[id]
           IN  IF "MOVIMENTO_SUSPEITO" \in DOMAIN tracked.LastLogTimes
               THEN tracked.LastLogTimes["MOVIMENTO_SUSPEITO"]
                        = tracked.LastSuspiciousMovement
               ELSE tracked.LastSuspiciousMovement = ZeroTime

\* a track's second movement event is log-eligible and moves the throttle
\* timestamp written by the first
C31_Witness ==
    /\ pc = "cleanupOldTracking"
    /\ \E i \in DOMAIN behaviors :
           LET id == behaviors[i].PersonID
           IN  /\ behaviors[i].Type = "MOVIMENTO_SUSPEITO"
               /\ behaviors[i].ShouldLog
               /\ <<id, "MOVIMENTO_SUSPEITO">> \in DOMAIN prevEvent
               /\ prevEvent[<<id, "MOVIMENTO_SUSPEITO">>].Time < now
               /\ id \in DOMAIN trackedPeople
               /\ trackedPeople[id].LastLogTimes["MOVIMENTO_SUSPEITO"] = now

\* the history length after n detections under a capacity
LengthAfter(n, capacity) == Min2(n + 1, capacity)

\* one iteration of updateTracking and the closed form it adds up to: a new
\* track holds the creating centroid twice, a matched track gains one entry,
\* both cut to the capacity; the first track of the walk, matched once per
\* frame fed, holds LengthAfter(fed) entries, the first two equal until the
\* first eviction, and passes the movement gate from the 15th detection on
HistoryLaw(capacity) ==
    /\ pc = "updateTracking" =>
           LET id == lastAssoc'.id
               positions == trackedPeople'[id].Positions
           IN  IF lastAssoc'.kind = "new"
               THEN /\ Len(positions) = LengthAfter(1, capacity)
                    /\ Len(positions) = 2 =>
                           (positions[1] = lastAssoc'.center /\ positions[2] = lastAssoc'.center)
               ELSE Len(positions) = Min2(Len(lastAssoc'.before) + 1, capacity)
    /\ (pc' # "updateTracking" /\ 1 \in DOMAIN trackedPeople') =>
           LET positions == trackedPeople'[1].Positions
           IN  /\ Len(positions) = LengthAfter(fed', capacity)
               /\ (fed' + 1 <= capacity /\ fed' >= 1) => positions[1] = positions[2]
               /\ capacity > MovementHistoryGate =>
                      (Len(positions) > MovementHistoryGate <=> fed' >= MovementHistoryGate)

C33_NewTrackOnlyFarFromAllTracks ==
    [][pc = "updateTracking" =>
          LET center == Centroid(Head(people).Box)
              far(id) == Dist2(center, Last(trackedPeople[id].Positions))
                             >= ProximityThreshold * ProximityThreshold
              grown == {id \in DOMAIN trackedPeople :
                           Len(trackedPeople'[id].Positions)
                               = Len(trackedPeople[id].Positions) + 1}
          IN  IF \A id \in DOMAIN trackedPeople : far(id)
              THEN /\ Cardinality(DOMAIN trackedPeople') = Cardinality(DOMAIN trackedPeople) + 1
                   /\ grown = {}
              ELSE /\ DOMAIN trackedPeople' = DOMAIN trackedPeople
                   /\ nextPersonID' = nextPersonID
                   /\ Cardinality(grown) = 1
                   /\ \A id \in grown : ~far(id)]_vars

\* the two person detections of the first frame are 40 px apart: the first
\* created the only track, which then absorbed the second
C33_Witness ==
    /\ pc = "analyzeBehaviors"
    /\ fed = 2
    /\ Len(filterPeople(detections)) = 2
    /\ Centroid(detections[1].Box) # Centroid(detections[2].Box)
    /\ DOMAIN trackedPeople = {1}
    /\ created = <<1>>
    /\ lastAssoc.kind = "match"
    /\ trackedPeople[1].FirstSeen = now
    /\ trackedPeople[1].Positions
           = <<Centroid(detections[1].Box), Centroid(detections[1].Box),
               Centroid(detections[2].Box)>>

\* C34: after every step every track has firstSeen <= lastSeen, a stored dwell
\* time of lastSeen - firstSeen and its key as ID; the firstSeen and the ID of
\* a track never change and its lastSeen never decreases.
C34_TrackTimesConsistent ==
    [][\A id \in DOMAIN trackedPeople' :
          LET after == trackedPeople'[id]
          IN  /\ after.ID = id
              /\ after.FirstSeen <= after.LastSeen
              /\ after.LastSeen <= now'
              /\ after.LoiteringTime = after.LastSeen - after.FirstSeen
              /\ id \in DOMAIN trackedPeople =>
                     /\ after.FirstSeen = trackedPeople[id].FirstSeen
                     /\ after.LastSeen >= trackedPeople[id].LastSeen]_vars

\* a track created in an earlier cycle has just been matched again, later,
\* and its dwell time is the time between the two sightings
C34_Witness ==
    /\ lastAssoc.kind = "match"
    /\ lastAssoc.age > 0
    /\ lastAssoc.id \in DOMAIN trackedPeople
    /\ trackedPeople[lastAssoc.id].LastSeen = now
    /\ trackedPeople[lastAssoc.id].FirstSeen < now
    /\ trackedPeople[lastAssoc.id].LoiteringTime = now - trackedPeople[lastAssoc.id].FirstSeen

\* the pose records of the store
StoredPoses ==
    UNION {{trackedPeople[id].Poses[k] : k \in DOMAIN trackedPeople[id].Poses} :
              id \in DOMAIN trackedPeople}

MovementWindowOf(id) == LastK(trackedPeople[id].Positions, MovementWindow)

\* more than half of the significant triplets of the window reverse direction
ErraticContributes(positions) ==
    /\ significantMoves(positions) > 0
    /\ 2 * directionChanges(positions) > significantMoves(positions)

\* C36: a window whose score exceeds the firing threshold, and so every
\* movement event, has the erratic sub-score together with the confinement or
\* the velocity sub-score; a window without the erratic sub-score, or with
\* it alone, stays at or below 0.7 and yields no event.
C36_MovementEventNeedsErraticAndAnother ==
    \A id \in DOMAIN trackedPeople :
        Len(trackedPeople[id].Positions) > MovementHistoryGate =>
            LET window == MovementWindowOf(id)
                m == analyzeSuspiciousMovement(window)
                erratic == ErraticContributes(window)
                others == Confined(window) \/ Inconsistent(window)
            IN  /\ ExceedsAlertThreshold(m) => (erratic /\ others)
                /\ ~(erratic /\ others) => 10 * m.Num <= 7 * m.Den
                /\ (pc = "cleanupOldTracking" /\ MovementEvents(id) # {}) => (erratic /\ others)

\* a movement event for a window with the erratic and the confinement
\* sub-scores but without the velocity sub-score
C36_Witness ==
    /\ pc = "cleanupOldTracking"
    /\ \E id \in DOMAIN trackedPeople :
           /\ Len(trackedPeople[id].Positions) > MovementHistoryGate
           /\ MovementEvents(id) # {}
           /\ ErraticContributes(MovementWindowOf(id))
           /\ Confined(MovementWindowOf(id))
           /\ ~Inconsistent(MovementWindowOf(id))

\* the pose records of a track, none for an id not in the store
PosesOf(store, id) == IF id \in DOMAIN store THEN store[id].Poses ELSE <<>>

\* C37: with pose estimation there is at most one pose per frame, found in
\* that frame or cached from at most 9 frames before; the iteration of
\* updateTracking for the first person detection appends it to the track it
\* matches or creates, an iteration for a later detection appends no pose,
\* and no other step adds a pose record to any track (pose histories below
\* their capacity, so that nothing is evicted).
C37_PoseOnlyForFirstDetection ==
    [][PoseVariant =>
          IF pc = "updateTracking"
          THEN LET i == Len(filterPeople(detections)) - Len(people)
                   id == lastAssoc'.id
               IN  /\ Len(poses) <= 1
                   /\ poses # <<>> =>
                          /\ poseEnabled
                          /\ poses = lastPoses
                          /\ frameCount - lastPoseFrame \in 0..(PoseInterval - 1)
                   /\ \A o \in DOMAIN trackedPeople' \ {id} :
                          trackedPeople'[o].Poses = PosesOf(trackedPeople, o)
                   /\ trackedPeople'[id].Poses =
                          IF i = 0 /\ poses # <<>>
                          THEN Append(PosesOf(trackedPeople, id), poses[1])
                          ELSE PosesOf(trackedPeople, id)
          ELSE \A id \in DOMAIN trackedPeople' :
                   trackedPeople'[id].Poses = PosesOf(trackedPeople, id)]_vars

\* a pose found 9 frames before has been appended to the track of the first
\* person of the frame, and the track matched by the second person, which
\* holds poses from earlier frames, has gained none
C37_Witness ==
    /\ pc = "analyzeBehaviors"
    /\ Len(filterPeople(detections)) = 2
    /\ poses # <<>>
    /\ frameCount - lastPoseFrame = PoseInterval - 1
    /\ lastAssoc.kind = "match"
    /\ lastAssoc.posesBefore # <<>>
    /\ trackedPeople[lastAssoc.id].Poses = lastAssoc.posesBefore
    /\ \E first \in DOMAIN trackedPeople \ {lastAssoc.id} :
           /\ trackedPeople[first].LastSeen = now
           /\ Len(trackedPeople[first].Poses) > 1
           /\ Last(trackedPeople[first].Poses) = poses[1]

====
